---- MODULE Spec2Model ----
(***************************************************************************)
(* The orchestration core of the conversation-archive assistant:           *)
(* LLMOrchestrator.run (the round-bounded tool loop), RetrievalTools.peek  *)
(* and RetrievalTools.turn (the two tools), and AgentService.run (the      *)
(* persistence of the finished turn), from src/backend/services/agent.py,  *)
(* with the helpers of src/backend/api/retrieval.py and the session store  *)
(* of src/backend/models/sessions.py.                                      *)
(*                                                                         *)
(* Values.  A Python value is a record tagged by t:                        *)
(*   [t |-> "null"]                 None / JSON null                       *)
(*   [t |-> "absent"]               the value of a key a dict does not hold *)
(*   [t |-> "int",  n |-> 5]        an integer                             *)
(*   [t |-> "str",  s |-> <<..>>]   a string given character by character  *)
(*   [t |-> "tok",  v |-> "t1"]     a string taken as one token: a tool    *)
(*                                  name, a UUID text, an ISO-8601 text    *)
(*   [t |-> "list", n |-> 1]        a JSON array of n elements             *)
(*   [t |-> "dict", d |-> [...]]    a JSON object; d gives every key of    *)
(*                                  ArgKeys a value, absent when missing   *)
(***************************************************************************)
EXTENDS Integers, Sequences, FiniteSets, TLC

\* ----------------------------------------------------------------- constants

MAX_ROUNDS == 8
MAX_HYDRATE_TURNS == 20
MAX_TURN_CHARS == 2000
DEFAULT_TOP_K == 100
DEFAULT_TOP_N_SNIPPETS == 10
DEFAULT_BIN_DAYS == 7
MAX_SNIPPET_LEN == 400
SECONDS_PER_DAY == 86400

\* The two failures of a gateway, as the HTTPException each is raised as.
COMPLETION_FAILED == "HTTPException 502 Orchestrator LLM call failed"
EMBEDDING_FAILED == "HTTPException 502 Failed to fetch embedding"

\* ------------------------------------------------------------------- bounds

\* The most tool calls one completion response of the varied rounds carries.
MaxCalls == 2
\* The number of rounds of a run, its first ones or its last ones, in which
\* the completion gateway draws its response from the whole universe of
\* responses; in every other round it answers, or repeats the request of the
\* round before (the lead request when there is none).
VariedRounds == 1

\* The rounds in which a run that opens with hydrates repeats them.
HydrateRounds == 5

\* The resolution of the model's datetimes: the ticks in a second.
TicksPerSecond == 2

\* ------------------------------------------------------------------- values

None == [t |-> "null"]
Absent == [t |-> "absent"]
JInt(n) == [t |-> "int", n |-> n]
JStr(s) == [t |-> "str", s |-> s]
JTok(v) == [t |-> "tok", v |-> v]
JList(n) == [t |-> "list", n |-> n]

ArgKeys ==
  {"query", "top_k", "bin_days", "top_n_snippets", "start_time", "end_time",
   "conversation_id", "turn_id"}

EmptyDict == [t |-> "dict", d |-> [k \in ArgKeys |-> Absent]]

\* The object  base  with key k set to v.
With(base, k, v) == [t |-> "dict", d |-> [base.d EXCEPT ![k] = v]]

IsDict(x) == x.t = "dict"

HasKey(x, k) == x.d[k] # Absent

\* dict.get(key): the value, None when the key is missing.
Get(x, k) == IF HasKey(x, k) THEN x.d[k] ELSE None

\* dict.get(key, default): the default only when the key is missing (an
\* explicit null is returned as it is).
GetDefault(x, k, default) == IF HasKey(x, k) THEN x.d[k] ELSE default

\* Python truthiness of a value: what `x or y` and `if x` test.
Truthy(x) ==
  CASE x.t \in {"null", "absent"} -> FALSE
    [] x.t = "int"  -> x.n # 0
    [] x.t = "str"  -> x.s # <<>>
    [] x.t = "tok"  -> TRUE
    [] x.t = "list" -> x.n > 0
    [] x.t = "dict" -> \E k \in ArgKeys : HasKey(x, k)

\* x or y
Or(x, y) == IF Truthy(x) THEN x ELSE y

\* ------------------------------------------------------------------ strings

Whitespace == {" ", "\n", "\t"}

RECURSIVE LStrip(_)
LStrip(s) ==
  IF s # <<>> /\ Head(s) \in Whitespace THEN LStrip(Tail(s)) ELSE s

RECURSIVE RStrip(_)
RStrip(s) ==
  IF s # <<>> /\ s[Len(s)] \in Whitespace
  THEN RStrip(SubSeq(s, 1, Len(s) - 1))
  ELSE s

\* str.strip() of a character string.
StripSeq(s) == RStrip(LStrip(s))

\* str.strip() of a string value; a token holds no whitespace.
Strip(x) == IF x.t = "str" THEN JStr(StripSeq(x.s)) ELSE x

IsString(x) == x.t \in {"str", "tok"}

\* len(text) of a string value; a token stands for a short text.
StrLen(x) == IF x.t = "str" THEN Len(x.s) ELSE 1

\* text[:limit]
Prefix(x, limit) ==
  IF x.t = "str" /\ Len(x.s) > limit THEN JStr(SubSeq(x.s, 1, limit)) ELSE x

\* --------------------------------------------------------------- the corpus

\* The texts that parse as a UUID: the embedding records' ids, one id that
\* names no record, and the conversations.
UUIDs == {"t1", "t2", "t3", "t9", "c1", "c2"}

\* UUID(text): TRUE when the constructor accepts the value (a string in UUID
\* form); any other string raises ValueError.
IsUUID(x) == x.t = "tok" /\ x.v \in UUIDs

\* A datetime is its distance from the UTC epoch in ticks; this one is a
\* whole number of seconds from it.
AtSecond(seconds) == seconds * TicksPerSecond

\* The ISO-8601 texts of the model and the datetime that
\* datetime.fromisoformat reads from each.
IsoTexts == {"1970-01-01T00:00:00Z", "1970-01-05T00:00:00Z", "1970-01-20T00:00:00Z"}

IsoInstant(v) ==
  CASE v = "1970-01-01T00:00:00Z" -> AtSecond(0)
    [] v = "1970-01-05T00:00:00Z" -> AtSecond(4 * SECONDS_PER_DAY)
    [] v = "1970-01-20T00:00:00Z" -> AtSecond(19 * SECONDS_PER_DAY)

\* The rows of message_embeddings joined with their messages, in ascending
\* distance from the query vector (every query of the model embeds to the
\* same vector).  distance_milli is the distance in thousandths; the third
\* row's user message has no create_time.
Corpus ==
  << [turn_id |-> "t1", conversation_id |-> "c1", user_message_id |-> "u1",
      assistant_message_id |-> JTok("a1"), has_time |-> TRUE,
      create_time |-> AtSecond(SECONDS_PER_DAY + 3600),
      user_text |-> JStr(<<"a">>), assistant_text |-> JStr(<<"a", "a">>),
      assistant_summary |-> None, used_turn_summary |-> FALSE,
      distance_milli |-> 250],
     [turn_id |-> "t2", conversation_id |-> "c1", user_message_id |-> "u2",
      assistant_message_id |-> JTok("a2"), has_time |-> TRUE,
      create_time |-> AtSecond(9 * SECONDS_PER_DAY + 7200),
      user_text |-> JStr(<<" ", "a">>), assistant_text |-> JStr(<<"a", " ", "a">>),
      assistant_summary |-> JStr(<<"a">>), used_turn_summary |-> TRUE,
      distance_milli |-> 500],
     [turn_id |-> "t3", conversation_id |-> "c2", user_message_id |-> "u3",
      assistant_message_id |-> None, has_time |-> FALSE,
      create_time |-> 0,
      user_text |-> JStr(<<"a", " ">>), assistant_text |-> None,
      assistant_summary |-> None, used_turn_summary |-> FALSE,
      distance_milli |-> 1000] >>

\* ------------------------------------------------------- retrieval helpers

\* A score that falls linearly with the distance: 1 - distance.
score_from_distance_Linear(distance_milli) ==
  [num |-> 1000 - distance_milli, den |-> 1000]

\* score = 1 / (1 + distance), kept as the fraction num/den.
score_from_distance(distance_milli) ==
  [num |-> 1000, den |-> 1000 + distance_milli]

\* text.strip() cut to MAX_SNIPPET_LEN characters; None stays None.
trim_snippet(text) ==
  IF text = None THEN None ELSE Prefix(Strip(text), MAX_SNIPPET_LEN)

\* int(ts_utc.timestamp()): the seconds of a datetime since the epoch, the
\* fraction of a second cut off towards zero.
timestamp_int(ts) ==
  IF ts >= 0 THEN ts \div TicksPerSecond ELSE -((-ts) \div TicksPerSecond)

\* bin_timestamp(ts_utc, bin_seconds): the datetime of
\* int(ts_utc.timestamp()) // bin_seconds * bin_seconds.
bin_timestamp(ts, bin_seconds) ==
  AtSecond((timestamp_int(ts) \div bin_seconds) * bin_seconds)

\* A cut that keeps the end of the text: text[-limit:].
_truncate_Tail(text) ==
  IF text = None THEN None
  ELSE IF Len(text.s) > MAX_TURN_CHARS
  THEN JStr(SubSeq(text.s, Len(text.s) - MAX_TURN_CHARS + 1, Len(text.s)))
  ELSE text

\* text[:limit] when longer than limit; None stays None.
_truncate(text) ==
  IF text = None THEN None ELSE Prefix(text, MAX_TURN_CHARS)

\* int(x) of a tool argument: [ok, n].  A string of the model holds no
\* digit, so int() of it raises ValueError; None, a list and a dict raise
\* TypeError.
IntOf(x) ==
  IF x.t = "int" THEN [ok |-> TRUE, n |-> x.n] ELSE [ok |-> FALSE, n |-> 0]

\* _parse_iso_datetime(value): [ok, some, at].  None and a blank string give
\* None; a value that is no string raises AttributeError at .strip(), a
\* string that is no ISO text raises ValueError.
_parse_iso_datetime(value) ==
  CASE value = None ->
         [ok |-> TRUE, some |-> FALSE, at |-> 0]
    [] value.t = "str" /\ StripSeq(value.s) = <<>> ->
         [ok |-> TRUE, some |-> FALSE, at |-> 0]
    [] value.t = "tok" /\ value.v \in IsoTexts ->
         [ok |-> TRUE, some |-> TRUE, at |-> IsoInstant(value.v)]
    [] OTHER ->
         [ok |-> FALSE, some |-> FALSE, at |-> 0]

\* UUID(conversation_id) if conversation_id else None: [ok, some, id].
ConversationUUID(value) ==
  CASE ~Truthy(value) -> [ok |-> TRUE, some |-> FALSE, id |-> ""]
    [] IsUUID(value)  -> [ok |-> TRUE, some |-> TRUE, id |-> value.v]
    [] OTHER          -> [ok |-> FALSE, some |-> FALSE, id |-> ""]

\* str(x) of a value, as a string value.
PyStr(x) ==
  CASE IsString(x)   -> x
    [] x.t = "null"  -> JStr(<<"N", "o", "n", "e">>)
    [] x.t = "int"   -> JStr(<<"#">>)
    [] x.t = "list"  -> JStr(<<"[", "]">>)
    [] OTHER         -> JStr(<<"{", "}">>)

\* The elements of a set of integers in ascending order.
RECURSIVE SortedSeq(_)
SortedSeq(S) ==
  IF S = {} THEN <<>>
  ELSE LET m == CHOOSE x \in S : \A y \in S : x <= y
       IN  <<m>> \o SortedSeq(S \ {m})

\* The sub-sequence of the elements of seq that satisfy Keep, in order.
RECURSIVE SelectRows(_, _, _, _)
SelectRows(seq, start_time, end_time, conversation) ==
  IF seq = <<>> THEN <<>>
  ELSE LET r == Head(seq)
           keep == /\ start_time.some => (r.has_time /\ r.create_time >= start_time.at)
                   /\ end_time.some => (r.has_time /\ r.create_time <= end_time.at)
                   /\ conversation.some => r.conversation_id = conversation.id
           rest == SelectRows(Tail(seq), start_time, end_time, conversation)
       IN  IF keep THEN <<r>> \o rest ELSE rest

Min(a, b) == IF a <= b THEN a ELSE b

\* ---------------------------------------------------------- RetrievalTools

\* What a tool method does: it returns a response, or an exception leaves it.
\* hydrated is the value of RetrievalTools._hydrated afterwards.
Return(response, hydrated) ==
  [kind |-> "return", response |-> response, exc |-> "", hydrated |-> hydrated]

Raise(exc, hydrated) ==
  [kind |-> "raise", response |-> None, exc |-> exc, hydrated |-> hydrated]

Error(text) == [ok |-> FALSE, error |-> text]

Ok(data) == [ok |-> TRUE, data |-> data]

\* The rows the nearest-neighbour query returns: the filtered corpus in
\* ascending distance, cut by LIMIT top_k (top_k >= 0).
SearchRows(top_k, start_time, end_time, conversation) ==
  LET found == SelectRows(Corpus, start_time, end_time, conversation)
  IN  SubSeq(found, 1, Min(top_k, Len(found)))

\* The bucket starts of the rows that have a create_time (bin_seconds # 0).
BucketStarts(rows, bin_seconds) ==
  { bin_timestamp(rows[i].create_time, bin_seconds) :
      i \in { j \in 1..Len(rows) : rows[j].has_time } }

\* A histogram that counts each bucket once, however many rows fall in it.
HistogramOf_OnePerBucket(rows, bin_days, bin_seconds) ==
  LET starts == SortedSeq(BucketStarts(rows, bin_seconds))
  IN  [bin_days |-> bin_days,
       total    |-> Len(rows),
       buckets  |-> [i \in 1..Len(starts) |->
                       [start |-> starts[i],
                        end   |-> starts[i] + AtSecond(bin_seconds),
                        count |-> 1]]]

\* The histogram of the rows: one bucket per distinct start, ascending.
HistogramOf(rows, bin_days, bin_seconds) ==
  LET starts == SortedSeq(BucketStarts(rows, bin_seconds))
      CountAt(start) ==
        Cardinality({ i \in 1..Len(rows) :
                        /\ rows[i].has_time
                        /\ bin_timestamp(rows[i].create_time, bin_seconds) = start })
  IN  [bin_days |-> bin_days,
       total    |-> Len(rows),
       buckets  |-> [i \in 1..Len(starts) |->
                       [start |-> starts[i],
                        end   |-> starts[i] + AtSecond(bin_seconds),
                        count |-> CountAt(starts[i])]]]

\* The preview of one row.
PreviewOf(row) ==
  LET assistant_source ==
        IF row.used_turn_summary THEN row.assistant_summary ELSE row.assistant_text
  IN  [turn_id              |-> row.turn_id,
       conversation_id      |-> row.conversation_id,
       user_message_id      |-> row.user_message_id,
       assistant_message_id |-> row.assistant_message_id,
       create_time          |-> IF row.has_time THEN JInt(row.create_time) ELSE None,
       user_snippet         |-> Or(trim_snippet(row.user_text), JStr(<<>>)),
       assistant_snippet    |-> trim_snippet(assistant_source),
       score                |-> score_from_distance(row.distance_milli)]

\* Previews of the last max_matches rows, the farthest candidates.
PreviewsOf_Farthest(rows, top_n_snippets) ==
  LET max_matches == Min(top_n_snippets, Len(rows))
  IN  [i \in 1..(IF max_matches > 0 THEN max_matches ELSE 0) |->
         PreviewOf(rows[Len(rows) - max_matches + i])]

\* The previews: the loop appends while len(previews) < max_matches.
PreviewsOf(rows, top_n_snippets) ==
  LET max_matches == Min(top_n_snippets, Len(rows))
  IN  [i \in 1..(IF max_matches > 0 THEN max_matches ELSE 0) |-> PreviewOf(rows[i])]

\* str(arguments.get("query") or "").strip()
QueryOf(arguments) == Strip(PyStr(Or(Get(arguments, "query"), JStr(<<>>))))

\* RetrievalTools.peek(arguments) once the query is known not to be blank:
\* the other arguments, the embedding, the search, the histogram and the
\* previews.  embed_ok: the embedding gateway answers.
peek_search(arguments, embed_ok, hydrated) ==
  LET query == QueryOf(arguments)
      top_k == IntOf(GetDefault(arguments, "top_k", JInt(DEFAULT_TOP_K)))
      bin_days == IntOf(GetDefault(arguments, "bin_days", JInt(DEFAULT_BIN_DAYS)))
      top_n_snippets ==
        IntOf(GetDefault(arguments, "top_n_snippets", JInt(DEFAULT_TOP_N_SNIPPETS)))
      start_time == _parse_iso_datetime(Get(arguments, "start_time"))
      end_time == _parse_iso_datetime(Get(arguments, "end_time"))
      conversation == ConversationUUID(Get(arguments, "conversation_id"))
      bin_seconds == bin_days.n * SECONDS_PER_DAY
      rows == SearchRows(top_k.n, start_time, end_time, conversation)
      previews == PreviewsOf(rows, top_n_snippets.n)
  IN  IF ~(top_k.ok /\ bin_days.ok /\ top_n_snippets.ok /\ start_time.ok
                  /\ end_time.ok /\ conversation.ok)
      THEN Return(Error("invalid arguments"), hydrated)
      ELSE IF ~embed_ok
      THEN Raise(EMBEDDING_FAILED, hydrated)
      ELSE IF top_k.n < 0
      THEN \* PostgreSQL rejects a negative LIMIT; psycopg raises.
           Raise("DatabaseError", hydrated)
      ELSE IF bin_seconds = 0 /\ (\E i \in 1..Len(rows) : rows[i].has_time)
      THEN Raise("ZeroDivisionError", hydrated)
      ELSE Return(Ok([query          |-> query,
                      top_k          |-> top_k.n,
                      bin_days       |-> bin_days.n,
                      top_n_snippets |-> top_n_snippets.n,
                      histogram      |-> HistogramOf(rows, bin_days.n, bin_seconds),
                      previews       |-> previews,
                      counts         |-> [total_candidates |-> Len(rows),
                                          preview_count    |-> Len(previews)],
                      notice |-> "Preview-only; hydrate with turn for evidence."]),
                  hydrated)

\* A peek that asks the embedding gateway before it looks at the query.
peek_EmbedsFirst(arguments, embed_ok, hydrated) ==
  IF ~IsDict(arguments) THEN Raise("AttributeError", hydrated)
  ELSE IF ~embed_ok THEN Raise(EMBEDDING_FAILED, hydrated)
  ELSE IF ~Truthy(QueryOf(arguments))
  THEN Return(Error("query is required"), hydrated)
  ELSE peek_search(arguments, embed_ok, hydrated)

\* RetrievalTools.peek(arguments).  embed_ok: the embedding gateway answers.
peek(arguments, embed_ok, hydrated) ==
  IF ~IsDict(arguments) THEN Raise("AttributeError", hydrated)
  ELSE IF ~Truthy(QueryOf(arguments))
  THEN Return(Error("query is required"), hydrated)
  ELSE peek_search(arguments, embed_ok, hydrated)

\* A lookup that falls back on the first row when no row has the id.
RowsOf_OrFirst(turn_id) ==
  IF \E i \in 1..Len(Corpus) : Corpus[i].turn_id = turn_id
  THEN { i \in 1..Len(Corpus) : Corpus[i].turn_id = turn_id }
  ELSE {1}

\* The corpus row of an embedding-record id, as a set (empty: no such row).
RowsOf(turn_id) == { i \in 1..Len(Corpus) : Corpus[i].turn_id = turn_id }

CAP_REACHED == "turn hydration cap reached"

\* The Hydrated Turn that RetrievalTools.turn builds from the row it read.
HydratedTurn(row) ==
  LET assistant_content ==
        IF row.used_turn_summary THEN row.assistant_summary ELSE row.assistant_text
      user_trunc == _truncate(row.user_text)
      assistant_trunc == _truncate(assistant_content)
      truncated ==
        (user_trunc # row.user_text) \/ (assistant_trunc # assistant_content)
  IN  [turn_id              |-> row.turn_id,
       conversation_id      |-> row.conversation_id,
       user_message_id      |-> row.user_message_id,
       assistant_message_id |-> row.assistant_message_id,
       create_time |-> IF row.has_time THEN JInt(row.create_time) ELSE None,
       user_content         |-> user_trunc,
       assistant_content    |-> assistant_trunc,
       used_turn_summary    |-> row.used_turn_summary,
       truncated            |-> truncated,
       notice |-> "Evidence bundle; suitable for grounding/quoting."]

\* RetrievalTools.turn(arguments) after its test of the cap.  The row's
\* provider, model and embedding_created_at columns, which nothing reads,
\* are left out.
turn_lookup(arguments, hydrated) ==
  IF ~IsDict(arguments) THEN Raise("AttributeError", hydrated)
  ELSE
  LET turn_uuid == PyStr(Get(arguments, "turn_id"))
  IN  IF ~IsUUID(turn_uuid) THEN Return(Error("invalid turn_id"), hydrated)
      ELSE IF RowsOf(turn_uuid.v) = {} THEN Return(Error("turn not found"), hydrated)
      ELSE
      Return(Ok(HydratedTurn(Corpus[CHOOSE i \in RowsOf(turn_uuid.v) : TRUE])),
             hydrated + 1)

\* A cap that lets one more hydrate through: > where the code has >=.
turn_CapAbove(arguments, hydrated) ==
  IF hydrated > MAX_HYDRATE_TURNS
  THEN Return(Error(CAP_REACHED), hydrated)
  ELSE turn_lookup(arguments, hydrated)

\* A cap tested only for arguments that name a turn of the corpus.
turn_CapAfterLookup(arguments, hydrated) ==
  LET found == turn_lookup(arguments, hydrated)
  IN  IF found.kind = "return" /\ found.response.ok /\ hydrated >= MAX_HYDRATE_TURNS
      THEN Return(Error(CAP_REACHED), hydrated)
      ELSE found

\* RetrievalTools.turn(arguments).
turn(arguments, hydrated) ==
  IF hydrated >= MAX_HYDRATE_TURNS
  THEN Return(Error(CAP_REACHED), hydrated)
  ELSE turn_lookup(arguments, hydrated)

\* --------------------------------------------- the completion gateway's side

\* The argument text of a tool call, by what json.loads makes of it: no text
\* (None or ""), a text that is no JSON, or the JSON text of a value.
NoText == [kind |-> "empty", value |-> None]
Malformed == [kind |-> "malformed", value |-> None]
JsonText(value) == [kind |-> "json", value |-> value]

PEEK == JTok("retrieval_peek")
TURN == JTok("retrieval_turn")
OTHER_TOOL == JTok("other_tool")

Function(name, arguments) == [name |-> name, arguments |-> arguments]

Q == With(EmptyDict, "query", JStr(<<"a">>))

\* The argument values the model's peek calls carry.
PeekArguments ==
  { Q,
    With(With(With(Q, "top_k", JInt(2)), "bin_days", JInt(1)), "top_n_snippets", JInt(1)),
    With(Q, "bin_days", JInt(0)),
    With(Q, "top_k", JInt(0)),
    With(Q, "top_k", JInt(-1)),
    With(Q, "top_k", JInt(1001)),
    With(EmptyDict, "query", JStr(<<" ">>)),
    With(Q, "top_k", JStr(<<"a">>)),
    With(With(Q, "start_time", JTok("1970-01-20T00:00:00Z")),
         "end_time", JTok("1970-01-05T00:00:00Z")),
    JList(1),
    None }

\* The argument values the model's hydrate calls carry: two turns of the
\* corpus, a UUID that names no turn, a text that is no UUID, and a list.
TurnArguments ==
  { With(EmptyDict, "turn_id", JTok("t1")),
    With(EmptyDict, "turn_id", JTok("t2")),
    With(EmptyDict, "turn_id", JTok("t9")),
    With(EmptyDict, "turn_id", JStr(<<"a">>)),
    JList(1) }

\* The tool calls a response of the varied rounds may carry.
Calls ==
  { Function(PEEK, JsonText(a)) : a \in PeekArguments }
    \cup { Function(PEEK, Malformed), Function(PEEK, NoText) }
    \cup { Function(TURN, JsonText(a)) : a \in TurnArguments }
    \cup { Function(TURN, Malformed) }
    \cup { Function(OTHER_TOOL, JsonText(EmptyDict)), Function(OTHER_TOOL, Malformed),
           Function(None, JsonText(EmptyDict)) }

\* The call that may come before the last call of a response.
LeadCalls == { Function(PEEK, JsonText(Q)) }

CallId(round, position) == [t |-> "id", round |-> round, position |-> position]

\* The call list of round r made of the functions fs, each with its id.
ToolCalls(fs, r) ==
  [t |-> "calls",
   items |-> [i \in 1..Len(fs) |-> [id |-> CallId(r, i), function |-> fs[i]]]]

\* The lists of 1..MaxCalls functions: lead calls, then any call.
FunctionLists ==
  UNION { { leads \o <<f>> : leads \in [1..n -> LeadCalls], f \in Calls } :
            n \in 0..(MaxCalls - 1) }

Message(content, tool_calls) == [content |-> content, tool_calls |-> tool_calls]

Payload(message) == [choices |-> << [message |-> message] >>]

\* The responses with neither tool calls nor text.
DegenerateResponses ==
  { [choices |-> <<>>],
    Payload(Message(None, None)),
    Payload(Message(JStr(<<" ">>), ToolCalls(<<>>, 0))) }

\* The responses with text and no tool calls.
AnswerResponses ==
  { Payload(Message(JStr(<<"a">>), None)),
    Payload(Message(JStr(<<" ", "a", " ">>), ToolCalls(<<>>, 0))) }

\* The responses with tool calls, some of them with text as well.
ToolResponses(r) ==
  { Payload(Message(None, ToolCalls(fs, r))) : fs \in FunctionLists }
    \cup { Payload(Message(JStr(<<"a">>), ToolCalls(<<f>>, r))) : f \in LeadCalls }

\* The request of the round before, asked again in round r.
Repeated(previous, r) ==
  Payload(Message(previous.content,
                  IF previous.tool_calls = None THEN None
                  ELSE ToolCalls([i \in 1..Len(previous.tool_calls.items) |->
                                    previous.tool_calls.items[i].function], r)))

\* The last assistant entry of a message history that holds one.
LastAssistant(history) ==
  history[CHOOSE i \in 1..Len(history) :
            /\ history[i].role = "assistant"
            /\ \A j \in (i + 1)..Len(history) : history[j].role # "assistant"]

\* The request of a round that has none before it: the calls the gateway
\* opens the run with.
LeadRequest(r, opening) == Payload(Message(None, ToolCalls(opening, r)))

\* A hydrate call for the embedding record  id.
Hydrate(id) == Function(TURN, JsonText(With(EmptyDict, "turn_id", JTok(id))))

\* The openings made of hydrate calls only: four hydrates of existing turns,
\* and five calls of which the first names no turn.
HydrateLeads ==
  { << Hydrate("t1"), Hydrate("t2"), Hydrate("t2"), Hydrate("t1") >>,
    << Hydrate("t9"), Hydrate("t1"), Hydrate("t2"), Hydrate("t1"), Hydrate("t2") >> }

\* The opening of one retrieval_peek call.
PeekLead == << CHOOSE f \in LeadCalls : TRUE >>

\* The rounds in which the gateway may vary its response: the first
\* VariedRounds rounds of a run, or its last.
VariedChoices ==
  { 1..VariedRounds, (MAX_ROUNDS - VariedRounds + 1)..MAX_ROUNDS }

\* The rounds in which the gateway varies its response after it asked for
\* the same hydrates in each of the first HydrateRounds rounds.
HydrateVaried ==
  { r \in 1..MAX_ROUNDS : r > HydrateRounds /\ r <= HydrateRounds + VariedRounds }

\* What the gateway does in a run: the rounds it varies its response in, and
\* the calls it opens with when round 1 is not one of them.
GatewayModes ==
  { [varied |-> rounds, lead |-> PeekLead] : rounds \in VariedChoices }
    \cup { [varied |-> HydrateVaried, lead |-> opening] : opening \in HydrateLeads }

\* The responses the gateway may give in round r to the history sent, when
\* it varies its response in the rounds of  rounds.
Responses(r, history, rounds, opening) ==
  IF r \in rounds
  THEN DegenerateResponses \cup AnswerResponses \cup ToolResponses(r)
  ELSE { Payload(Message(JStr(<<"a">>), None)),
         IF \E i \in 1..Len(history) : history[i].role = "assistant"
         THEN Repeated(LastAssistant(history), r)
         ELSE LeadRequest(r, opening) }

\* ----------------------------------------------------------- session store

MAX_CONTENT_LEN == 32000

\* The sessions table at the start: an open session and an archived one,
\* each with its conversation in its metadata.  No message is stored yet.
InitDb ==
  [sessions |-> [id \in {"s1", "s2"} |->
                   [archived |-> (id = "s2"),
                    conversation |-> JTok(IF id = "s1" THEN "k1" ELSE "k2")]],
   conversations |-> {"k1", "k2"},
   messages |-> <<>>,
   session_messages |-> <<>>]

\* create_session(conn): a fresh conversation and a fresh session (uuid4),
\* the conversation recorded in the session's metadata.
create_session(db) ==
  [db EXCEPT !.sessions = [id \in DOMAIN db.sessions \cup {"s-new"} |->
                             IF id = "s-new"
                             THEN [archived |-> FALSE, conversation |-> JTok("k-new")]
                             ELSE db.sessions[id]],
             !.conversations = @ \cup {"k-new"}]

Max(S) == CHOOSE x \in S : \A y \in S : y <= x

\* _next_idx_for_conversation: COALESCE(MAX(idx_in_conv) + 1, 0).
_next_idx_for_conversation(db, conversation_id) ==
  LET idxs == { db.messages[i].idx_in_conv :
                  i \in { j \in 1..Len(db.messages) :
                            db.messages[j].conversation_id = conversation_id } }
  IN  IF idxs = {} THEN 0 ELSE Max(idxs) + 1

\* A next index that is the highest index in use: MAX(idx) without the + 1.
_next_idx_for_session_Last(db, session_id) ==
  LET idxs == { db.session_messages[i].idx :
                  i \in { j \in 1..Len(db.session_messages) :
                            db.session_messages[j].session_id = session_id } }
  IN  IF idxs = {} THEN 0 ELSE Max(idxs)

\* _next_idx_for_session: COALESCE(MAX(idx) + 1, 0).
_next_idx_for_session(db, session_id) ==
  LET idxs == { db.session_messages[i].idx :
                  i \in { j \in 1..Len(db.session_messages) :
                            db.session_messages[j].session_id = session_id } }
  IN  IF idxs = {} THEN 0 ELSE Max(idxs) + 1

\* _conversation_id_for_session: the conversation of the metadata, else the
\* conversation of the session's first message, else a fresh one.
_conversation_id_for_session(db, session_id) ==
  LET from_meta == db.sessions[session_id].conversation
      linked == { i \in 1..Len(db.session_messages) :
                    db.session_messages[i].session_id = session_id }
      first == CHOOSE i \in linked :
                 \A j \in linked : db.session_messages[i].idx <= db.session_messages[j].idx
  IN  IF from_meta # None THEN from_meta.v
      ELSE IF linked # {}
      THEN db.messages[db.session_messages[first].message_id].conversation_id
      ELSE "k-new"

\* _insert_message and _link_session_message: the message row (its id is its
\* place in the table) and its link to the session.
InsertLinked(db, session_id, conversation_id, role, content_text, idx_in_conv, idx) ==
  LET message_id == Len(db.messages) + 1
      content_trimmed == Prefix(Strip(Or(content_text, JStr(<<>>))), MAX_CONTENT_LEN)
  IN  [db EXCEPT !.messages = Append(@, [id |-> message_id,
                                         conversation_id |-> conversation_id,
                                         role |-> role,
                                         idx_in_conv |-> idx_in_conv,
                                         content_text |-> content_trimmed]),
                 !.session_messages = Append(@, [session_id |-> session_id,
                                                 message_id |-> message_id,
                                                 idx |-> idx])]

\* append_turn(conn, session_id, user_content, assistant_content): what it
\* returns or raises, and the database as the open transaction sees it.
append_turn(db, session_id, user_content, assistant_content) ==
  IF session_id \notin DOMAIN db.sessions
  THEN [kind |-> "raise", exc |-> "SessionNotFound", result |-> None, db |-> db]
  ELSE IF db.sessions[session_id].archived
  THEN [kind |-> "raise", exc |-> "ValueError", result |-> None, db |-> db]
  ELSE
  LET conversation_id == _conversation_id_for_session(db, session_id)
      db0 == [db EXCEPT !.conversations = @ \cup {conversation_id},
                        !.sessions[session_id].conversation = JTok(conversation_id)]
      base_idx_conv == _next_idx_for_conversation(db0, conversation_id)
      base_idx_session == _next_idx_for_session(db0, session_id)
      db1 == InsertLinked(db0, session_id, conversation_id, "user", user_content,
                          base_idx_conv, base_idx_session)
      db2 == InsertLinked(db1, session_id, conversation_id, "assistant",
                          assistant_content, base_idx_conv + 1, base_idx_session + 1)
  IN  [kind |-> "return", exc |-> "",
       result |-> [session_id |-> session_id,
                   conversation_id |-> conversation_id,
                   user_message_id |-> Len(db0.messages) + 1,
                   assistant_message_id |-> Len(db0.messages) + 2],
       db |-> db2]

\* The session ids a caller may pass to AgentService.run: none, the open
\* session, the archived session and an id that names no session.
SessionIds == {None, JTok("s1"), JTok("s2"), JTok("s9")}

\* A persistence that creates a session whether or not one was supplied.
_persist_turn_AlwaysCreates(db, session_id, user_text, assistant_text) ==
  LET user_clean == Strip(Or(user_text, JStr(<<>>)))
      assistant_clean == Strip(Or(assistant_text, JStr(<<>>)))
      created == TRUE
      db0 == IF created THEN create_session(db) ELSE db
      target_session_id == IF created THEN "s-new" ELSE session_id.v
      appended == append_turn(db0, target_session_id, user_clean, assistant_clean)
      calls == (IF created THEN <<"create_session">> ELSE <<>>) \o <<"append_turn">>
  IN  IF ~Truthy(user_clean)
      THEN [kind |-> "raise", exc |-> "HTTPException 400 Cannot persist empty user message",
            result |-> None, db |-> db, calls |-> <<>>]
      ELSE IF ~Truthy(assistant_clean)
      THEN [kind |-> "raise", exc |-> "HTTPException 502 Assistant response was empty",
            result |-> None, db |-> db, calls |-> <<>>]
      ELSE IF appended.kind = "raise"
      THEN [kind |-> "raise",
            exc |-> IF appended.exc = "SessionNotFound"
                    THEN "HTTPException 404 session not found"
                    ELSE "HTTPException 400 Cannot append to an archived session",
            result |-> None, db |-> db, calls |-> calls]
      ELSE [kind |-> "return", exc |-> "", result |-> appended.result,
            db |-> appended.db, calls |-> calls]

\* A persistence that answers without identifiers when the append fails.
_persist_turn_SwallowsFailure(db, session_id, user_text, assistant_text) ==
  LET user_clean == Strip(Or(user_text, JStr(<<>>)))
      assistant_clean == Strip(Or(assistant_text, JStr(<<>>)))
      created == session_id = None
      db0 == IF created THEN create_session(db) ELSE db
      target_session_id == IF created THEN "s-new" ELSE session_id.v
      appended == append_turn(db0, target_session_id, user_clean, assistant_clean)
      calls == (IF created THEN <<"create_session">> ELSE <<>>) \o <<"append_turn">>
  IN  IF ~Truthy(user_clean)
      THEN [kind |-> "raise", exc |-> "HTTPException 400 Cannot persist empty user message",
            result |-> None, db |-> db, calls |-> <<>>]
      ELSE IF ~Truthy(assistant_clean)
      THEN [kind |-> "raise", exc |-> "HTTPException 502 Assistant response was empty",
            result |-> None, db |-> db, calls |-> <<>>]
      ELSE IF appended.kind = "raise"
      THEN [kind |-> "return", exc |-> "",
            result |-> [session_id |-> target_session_id, conversation_id |-> None,
                        user_message_id |-> None, assistant_message_id |-> None],
            db |-> db, calls |-> calls]
      ELSE [kind |-> "return", exc |-> "", result |-> appended.result,
            db |-> appended.db, calls |-> calls]

\* A persistence that appends whatever texts it is given, empty ones too.
_persist_turn_AppendsEmpty(db, session_id, user_text, assistant_text) ==
  LET user_clean == Strip(Or(user_text, JStr(<<>>)))
      assistant_clean == Strip(Or(assistant_text, JStr(<<>>)))
      created == session_id = None
      db0 == IF created THEN create_session(db) ELSE db
      target_session_id == IF created THEN "s-new" ELSE session_id.v
      appended == append_turn(db0, target_session_id, user_clean, assistant_clean)
      calls == (IF created THEN <<"create_session">> ELSE <<>>) \o <<"append_turn">>
  IN  IF appended.kind = "raise"
      THEN [kind |-> "raise",
            exc |-> IF appended.exc = "SessionNotFound"
                    THEN "HTTPException 404 session not found"
                    ELSE "HTTPException 400 Cannot append to an archived session",
            result |-> None, db |-> db, calls |-> calls]
      ELSE [kind |-> "return", exc |-> "", result |-> appended.result,
            db |-> appended.db, calls |-> calls]

\* AgentService._persist_turn: [kind, exc, result, db, calls].  db is the
\* database afterwards: the transaction is committed on return and rolled
\* back when an exception leaves the connection block.  calls lists the
\* session-store functions called.
_persist_turn(db, session_id, user_text, assistant_text) ==
  LET user_clean == Strip(Or(user_text, JStr(<<>>)))
      assistant_clean == Strip(Or(assistant_text, JStr(<<>>)))
      created == session_id = None
      db0 == IF created THEN create_session(db) ELSE db
      target_session_id == IF created THEN "s-new" ELSE session_id.v
      appended == append_turn(db0, target_session_id, user_clean, assistant_clean)
      calls == (IF created THEN <<"create_session">> ELSE <<>>) \o <<"append_turn">>
  IN  IF ~Truthy(user_clean)
      THEN [kind |-> "raise", exc |-> "HTTPException 400 Cannot persist empty user message",
            result |-> None, db |-> db, calls |-> <<>>]
      ELSE IF ~Truthy(assistant_clean)
      THEN [kind |-> "raise", exc |-> "HTTPException 502 Assistant response was empty",
            result |-> None, db |-> db, calls |-> <<>>]
      ELSE IF appended.kind = "raise"
      THEN [kind |-> "raise",
            exc |-> IF appended.exc = "SessionNotFound"
                    THEN "HTTPException 404 session not found"
                    ELSE "HTTPException 400 Cannot append to an archived session",
            result |-> None, db |-> db, calls |-> calls]
      ELSE [kind |-> "return", exc |-> "", result |-> appended.result,
            db |-> appended.db, calls |-> calls]

\* ------------------------------------------------------------ the run state

VARIABLES
  pc,           \* where AgentService.run stands:
                \*   "complete"  LLMOrchestrator.run is about to call _complete
                \*   "dispatch"  it is in the loop over the response's tool calls
                \*   "returned"  it has returned result to AgentService.run
                \*   "raised"    an exception left it, and AgentService.run
                \*   "done"      AgentService.run has returned outcome
                \*   "failed"    AgentService.run raised after the loop returned
  intent,       \* the argument of AgentService.run
  round_idx,    \* the loop variable of LLMOrchestrator.run
  messages,     \* the message history
  tool_runs,    \* the tool-run log
  histogram,    \* the histogram of the last successful peek, or None
  parsed_args,  \* the local parsed_args, Unbound until first assigned
  tool_calls,   \* the tool calls of the current response
  call_idx,     \* the place in tool_calls of the call handled next
  hydrated,     \* RetrievalTools._hydrated
  completions,  \* the number of calls of _complete so far
  sent,         \* the messages given to the last call of _complete
  result,       \* the OrchestratorResult returned, or None
  error,        \* the exception raised, or ""
  db,           \* the session store, committed rows only
  store_calls,  \* the session-store functions AgentService.run has called
  outcome,      \* what AgentService.run returned, or None
  session_id,   \* the session id the caller passed, once AgentService.run reads it
  varied,       \* the rounds in which the completion gateway varies its response
  lead,         \* the calls the gateway opens with when round 1 is not varied
  requests,     \* the orchestration runs of a service that serves several at once
  counters,     \* the hydrate counter of each RetrievalTools object
  inputs,       \* a call of one function of the program: its arguments
  returned,     \* what the call returned
  embed,        \* the embedding job: its tables, its place and its counts
  fetch,        \* a call of fetch_embeddings: its attempts and its waits
  ingest        \* an ingest run: its record, its tables and its place

vars ==
  << pc, intent, round_idx, messages, tool_runs, histogram, parsed_args,
     tool_calls, call_idx, hydrated, completions, sent, result, error, db,
     store_calls, outcome, session_id, varied, lead, requests, counters,
                  inputs, returned, embed, fetch, ingest >>

Unbound == [t |-> "unbound"]

\* The session_id argument of AgentService.run before the run reads it.
Unread == [t |-> "unread"]

\* The requests a service runs at once.
MaxRuns == 2

RunIds == 1..MaxRuns

\* A request that AgentService.run has not started on.
IdleRun ==
  [pc |-> "idle", tools |-> 0, round_idx |-> 0, messages |-> <<>>, tool_runs |-> <<>>,
   histogram |-> None, parsed_args |-> Unbound, tool_calls |-> <<>>, call_idx |-> 0,
   result |-> None, error |-> ""]

SYSTEM_PROMPT == JTok("SYSTEM_PROMPT")

\* The intents of the model's runs: a text, and a blank one, which only a
\* caller other than the chat endpoint can pass.
Intents == { JStr(<<" ", "a">>), JStr(<<" ">>) }

\* The gateway modes a run with the intent  text  is followed under: every
\* mode for a text, the hydrate openings for a blank intent.
ModesOf(text) ==
  IF Truthy(Strip(text)) THEN GatewayModes
  ELSE { mode \in GatewayModes : mode.lead \in HydrateLeads }

\* json.dumps(response): the text of the response.
json_dumps(response) == [json |-> response]

\* json.loads(text), text being what  arguments or "{}"  gives: [ok, value].
json_loads(raw_args) ==
  IF raw_args.kind = "malformed" THEN [ok |-> FALSE, value |-> None]
  ELSE [ok |-> TRUE, value |-> raw_args.value]

\* LLMOrchestrator._extract_message(payload).
_extract_message(payload) ==
  IF payload.choices = <<>> THEN Message(None, None)
  ELSE payload.choices[1].message

\* The history a run starts with.
InitialMessages(text) ==
  << [role |-> "system", content |-> SYSTEM_PROMPT],
     [role |-> "user", content |-> Strip(text)] >>

\* A completion call that sends only the newest message.
RequestMessages_LastOnly(history) == SubSeq(history, Len(history), Len(history))

\* The messages a completion call sends: the whole history.
RequestMessages(history) == history

\* The assistant's entry in the history: the response as it came.
AssistantEntry(message) ==
  [role |-> "assistant", content |-> message.content,
   tool_calls |-> message.tool_calls]

\* message.get("tool_calls") or []
ToolCallsOf(message) ==
  IF message.tool_calls = None THEN <<>> ELSE message.tool_calls.items

\* The final content taken without .strip().
FinalContent_NoStrip(message) == Or(message.content, JStr(<<>>))

\* (message.get("content") or "").strip()
FinalContent(message) == Strip(Or(message.content, JStr(<<>>)))

\* call.get("function", {}).get("arguments") or "{}"
RawArgs(call) ==
  IF call.function.arguments.kind = "empty" THEN JsonText(EmptyDict)
  ELSE call.function.arguments

\* The log entry of a tool call; args is the value of parsed_args.
ToolRun(tool_name, args, response) ==
  [tool |-> Or(tool_name, JTok("unknown")),
   arguments |-> IF IsDict(args) THEN args ELSE EmptyDict,
   response |-> response]

\* A tool-result message tagged with the id of the round's first call.
ToolMessage_FirstId(call, calls, response) ==
  [role |-> "tool", tool_call_id |-> calls[1].id, name |-> call.function.name,
   content |-> json_dumps(response)]

\* The tool-result message of a call of the round's calls.
ToolMessage(call, calls, response) ==
  [role |-> "tool", tool_call_id |-> call.id, name |-> call.function.name,
   content |-> json_dumps(response)]

\* A remembered histogram that a failed peek clears.
Remembered_ClearedByFailure(tool_name, response, old) ==
  IF tool_name = PEEK
  THEN (IF response.ok THEN response.data.histogram ELSE None)
  ELSE old

\* The histogram the loop remembers after a call's response.
Remembered(tool_name, response, old) ==
  IF tool_name = PEEK /\ response.ok THEN response.data.histogram ELSE old

\* A dispatch that counts every answered call, hydrate or not, succeeded or not.
_dispatch_CountsEveryCall(tool_name, arguments, embed_ok, hyd) ==
  LET did == IF tool_name = PEEK THEN peek(arguments, embed_ok, hyd)
             ELSE IF tool_name = TURN THEN turn(arguments, hyd)
             ELSE Return(Error("Unknown tool"), hyd)
  IN  IF did.kind = "return" THEN [did EXCEPT !.hydrated = hyd + 1] ELSE did

\* LLMOrchestrator._dispatch(tool_name, arguments).
_dispatch(tool_name, arguments, embed_ok, hyd) ==
  IF tool_name = PEEK THEN peek(arguments, embed_ok, hyd)
  ELSE IF tool_name = TURN THEN turn(arguments, hyd)
  ELSE Return(Error("Unknown tool"), hyd)

\* The turn ids of the successful hydrate runs, the newest first.
RECURSIVE CitedTurnIds_NewestFirst(_)
CitedTurnIds_NewestFirst(runs) ==
  IF runs = <<>> THEN <<>>
  ELSE LET tr == Head(runs)
       IN  CitedTurnIds_NewestFirst(Tail(runs)) \o
             (IF tr.tool = TURN /\ tr.response.ok THEN <<tr.response.data.turn_id>>
              ELSE <<>>)

\* The turn ids of the successful hydrate runs, each id once.
RECURSIVE CitedTurnIds_Distinct(_)
CitedTurnIds_Distinct(runs) ==
  IF runs = <<>> THEN <<>>
  ELSE LET tr == runs[Len(runs)]
           before == CitedTurnIds_Distinct(SubSeq(runs, 1, Len(runs) - 1))
       IN  IF /\ tr.tool = TURN
              /\ tr.response.ok
              /\ \A k \in 1..Len(before) : before[k] # tr.response.data.turn_id
           THEN Append(before, tr.response.data.turn_id)
           ELSE before

\* The turn ids of the successful hydrate runs of a log, in order.
RECURSIVE CitedTurnIds(_)
CitedTurnIds(runs) ==
  IF runs = <<>> THEN <<>>
  ELSE LET tr == Head(runs)
       IN  (IF tr.tool = TURN /\ tr.response.ok THEN <<tr.response.data.turn_id>>
            ELSE <<>>) \o CitedTurnIds(Tail(runs))

Completed(content, runs, hist) ==
  [intent |-> intent, final_answer |-> content, status |-> "completed",
   rounds |-> round_idx, tool_runs |-> runs, cited_turn_ids |-> CitedTurnIds(runs),
   histogram |-> hist]

\* A max_rounds_exceeded result that cites the hydrated turns like a
\* completed one.
MaxRoundsExceeded_Cites(runs, hist) ==
  [intent |-> intent, final_answer |-> None, status |-> "max_rounds_exceeded",
   rounds |-> MAX_ROUNDS, tool_runs |-> runs, cited_turn_ids |-> CitedTurnIds(runs),
   histogram |-> hist]

MaxRoundsExceeded(runs, hist) ==
  [intent |-> intent, final_answer |-> None, status |-> "max_rounds_exceeded",
   rounds |-> MAX_ROUNDS, tool_runs |-> runs, cited_turn_ids |-> <<>>,
   histogram |-> hist]

Init ==
  /\ pc = "complete"
  /\ intent \in Intents
  /\ round_idx = 1
  /\ messages = InitialMessages(intent)
  /\ tool_runs = <<>>
  /\ histogram = None
  /\ parsed_args = Unbound
  /\ tool_calls = <<>>
  /\ call_idx = 0
  /\ hydrated = 0
  /\ completions = 0
  /\ sent = <<>>
  /\ result = None
  /\ error = ""
  /\ db = InitDb
  /\ store_calls = <<>>
  /\ outcome = None
  /\ session_id = Unread
  /\ requests = [r \in RunIds |-> IdleRun]
  /\ counters = [o \in RunIds |-> 0]
  /\ inputs = None
  /\ returned = None
  /\ embed = None
  /\ fetch = None
  /\ ingest = None
  /\ \E mode \in ModesOf(intent) : varied = mode.varied /\ lead = mode.lead

\* A loop that ends one round early: range(1, MAX_ROUNDS).
NextRound_OneShort(runs, hist) ==
  IF round_idx < MAX_ROUNDS - 1
  THEN /\ pc' = "complete"
       /\ round_idx' = round_idx + 1
       /\ result' = result
  ELSE /\ pc' = "returned"
       /\ round_idx' = round_idx
       /\ result' = MaxRoundsExceeded(runs, hist)

\* The end of a round that did not complete the run: the next round, or the
\* end of the loop and the max_rounds_exceeded result.
NextRound(runs, hist) ==
  IF round_idx < MAX_ROUNDS
  THEN /\ pc' = "complete"
       /\ round_idx' = round_idx + 1
       /\ result' = result
  ELSE /\ pc' = "returned"
       /\ round_idx' = round_idx
       /\ result' = MaxRoundsExceeded(runs, hist)

\* One round's completion call and what the loop does with the response up
\* to its first tool call.
Complete ==
  /\ pc = "complete"
  /\ \E payload \in Responses(round_idx, messages, varied, lead) :
       LET message == _extract_message(payload)
           assistant_entry == AssistantEntry(message)
           calls == ToolCallsOf(message)
           content == FinalContent(message)
       IN  /\ completions' = completions + 1
           /\ sent' = RequestMessages(messages)
           /\ messages' = Append(messages, assistant_entry)
           /\ IF calls # <<>>
              THEN /\ pc' = "dispatch"
                   /\ tool_calls' = calls
                   /\ call_idx' = 1
                   /\ UNCHANGED << round_idx, result >>
              ELSE /\ UNCHANGED << tool_calls, call_idx >>
                   /\ IF Truthy(content)
                      THEN /\ pc' = "returned"
                           /\ result' = Completed(content, tool_runs, histogram)
                           /\ UNCHANGED round_idx
                      ELSE NextRound(tool_runs, histogram)
  /\ UNCHANGED << intent, tool_runs, histogram, parsed_args, hydrated, error, db,
                  store_calls, outcome, session_id, varied, lead, requests, counters,
                  inputs, returned, embed, fetch, ingest >>

\* A completion call that is made again after it failed.
CompleteFails_Retry ==
  /\ pc = "complete"
  /\ completions < MAX_ROUNDS
  /\ completions' = completions + 1
  /\ sent' = RequestMessages(messages)
  /\ error' = COMPLETION_FAILED
  /\ UNCHANGED << pc, intent, round_idx, messages, tool_runs, histogram, parsed_args,
                  tool_calls, call_idx, hydrated, result, db, store_calls, outcome,
                  session_id, varied, lead, requests, counters,
                  inputs, returned, embed, fetch, ingest >>

\* The completion gateway fails: _complete raises HTTPException(502).
CompleteFails ==
  /\ pc = "complete"
  /\ completions' = completions + 1
  /\ sent' = RequestMessages(messages)
  /\ pc' = "raised"
  /\ error' = COMPLETION_FAILED
  /\ UNCHANGED << intent, round_idx, messages, tool_runs, histogram, parsed_args,
                  tool_calls, call_idx, hydrated, result, db, store_calls, outcome,
                  session_id, varied, lead, requests, counters,
                  inputs, returned, embed, fetch, ingest >>

\* The body of the loop over the tool calls, for the call at call_idx.
Dispatch ==
  /\ pc = "dispatch"
  /\ \E embed_ok \in BOOLEAN :
       LET call == tool_calls[call_idx]
           tool_name == call.function.name
           raw_args == RawArgs(call)
           loaded == json_loads(raw_args)
           did == IF loaded.ok
                  THEN _dispatch(tool_name, loaded.value, embed_ok, hydrated)
                  ELSE Return(Error("Invalid JSON arguments"), hydrated)
           args_now == IF loaded.ok THEN loaded.value ELSE parsed_args
           response == did.response
           run == ToolRun(tool_name, args_now, response)
           hist == IF loaded.ok THEN Remembered(tool_name, response, histogram)
                   ELSE histogram
           runs == Append(tool_runs, run)
       IN  /\ parsed_args' = args_now
           /\ IF did.kind = "raise"
              THEN /\ pc' = "raised"
                   /\ error' = did.exc
                   /\ UNCHANGED << messages, tool_runs, histogram, hydrated, call_idx,
                                   round_idx, result >>
              ELSE IF args_now = Unbound
              THEN /\ pc' = "raised"
                   /\ error' = "UnboundLocalError"
                   /\ UNCHANGED << messages, tool_runs, histogram, hydrated, call_idx,
                                   round_idx, result >>
              ELSE /\ hydrated' = did.hydrated
                   /\ histogram' = hist
                   /\ tool_runs' = runs
                   /\ messages' = Append(messages, ToolMessage(call, tool_calls, response))
                   /\ error' = error
                   /\ IF call_idx < Len(tool_calls)
                      THEN /\ call_idx' = call_idx + 1
                           /\ UNCHANGED << pc, round_idx, result >>
                      ELSE /\ call_idx' = call_idx
                           /\ NextRound(runs, hist)
  /\ UNCHANGED << intent, tool_calls, completions, sent, db, store_calls, outcome,
                  session_id, varied, lead, requests, counters,
                  inputs, returned, embed, fetch, ingest >>

\* AgentService.run after the loop returned without an answer.
NoAnswer ==
  /\ pc = "returned"
  /\ ~Truthy(result.final_answer)
  /\ pc' = "failed"
  /\ error' = "HTTPException 502 Orchestrator did not produce a response"
  /\ UNCHANGED << intent, round_idx, messages, tool_runs, histogram, parsed_args,
                  tool_calls, call_idx, hydrated, completions, sent, result, db,
                  store_calls, outcome, session_id, varied, lead, requests, counters,
                  inputs, returned, embed, fetch, ingest >>

\* AgentService.run after the loop returned an answer: the turn is persisted
\* and the answer returned with its metadata.
Persist ==
  /\ pc = "returned"
  /\ Truthy(result.final_answer)
  /\ \E supplied \in SessionIds :
       LET hist == IF result.histogram = None
                   THEN [bin_days |-> DEFAULT_BIN_DAYS, total |-> 0, buckets |-> <<>>]
                   ELSE result.histogram
           persisted == _persist_turn(db, supplied, intent, result.final_answer)
       IN  /\ session_id' = supplied
           /\ store_calls' = store_calls \o persisted.calls
           /\ db' = persisted.db
           /\ IF persisted.kind = "raise"
              THEN /\ pc' = "failed"
                   /\ error' = persisted.exc
                   /\ outcome' = outcome
              ELSE /\ pc' = "done"
                   /\ error' = error
                   /\ outcome' =
                        [answer |-> result.final_answer,
                         metadata |->
                           [cited_turn_ids |-> result.cited_turn_ids,
                            histogram |-> hist,
                            session_id |-> persisted.result.session_id,
                            conversation_id |-> persisted.result.conversation_id,
                            user_message_id |-> persisted.result.user_message_id,
                            assistant_message_id |->
                              persisted.result.assistant_message_id]]
  /\ UNCHANGED << intent, round_idx, messages, tool_runs, histogram, parsed_args,
                  tool_calls, call_idx, hydrated, completions, sent, result, varied, lead, requests, counters,
                  inputs, returned, embed, fetch, ingest >>

Next == Complete \/ CompleteFails \/ Dispatch \/ NoAnswer \/ Persist

Spec == Init /\ [][Next]_vars

\* ------------------------------------------------------------------- claims

GatewayErrors == {COMPLETION_FAILED, EMBEDDING_FAILED}

\* The places of the assistant entries in the history: one per round.
AssistantIdx == { i \in 1..Len(messages) : messages[i].role = "assistant" }

RoundsSeen == Cardinality(AssistantIdx)

HasToolCalls(entry) ==
  IF entry.tool_calls = None THEN FALSE ELSE entry.tool_calls.items # <<>>

\* The text of an entry after trimming; empty when it has none.
TrimmedText(entry) ==
  IF entry.content = None THEN <<>> ELSE StripSeq(entry.content.s)

IsAnswerEntry(entry) == ~HasToolCalls(entry) /\ TrimmedText(entry) # <<>>

IsDegenerateEntry(entry) == ~HasToolCalls(entry) /\ TrimmedText(entry) = <<>>

LastMessage == messages[Len(messages)]

IsPrefix(a, b) == Len(a) <= Len(b) /\ SubSeq(b, 1, Len(a)) = a

\* An exception left the loop over the tool calls, at the call call_idx.
RaisedInDispatch == pc = "raised" /\ error # COMPLETION_FAILED

\* The exception that left the loop was not raised by a gateway: the handling
\* of the call at call_idx aborted the run.
AbortedByCall == pc = "raised" /\ error \notin GatewayErrors

CurrentCall == tool_calls[call_idx]

\* C1: a run in which no gateway call fails ends in status completed or
\* max_rounds_exceeded, after at most MAX_ROUNDS completion calls: no
\* exception other than a gateway failure leaves the loop.
C1_RunEndsCompletedOrExhausted ==
  /\ completions <= MAX_ROUNDS
  /\ (pc = "raised" => error \in GatewayErrors)
  /\ (pc \in {"returned", "done", "failed"} =>
        result.status \in {"completed", "max_rounds_exceeded"})

\* C2: the run completes at the first round whose response has no tool calls
\* and non-blank text, and at no other: the result then has status completed,
\* rounds equal to that round and final_answer equal to the trimmed text; a
\* completed run's last response carries no tool call; a run completed in
\* round 1 cites nothing.
C2_CompletesAtFirstAnswer ==
  /\ \A i \in AssistantIdx :
       IsAnswerEntry(messages[i]) =>
         /\ i = Len(messages)
         /\ result # None
         /\ result.status = "completed"
         /\ result.rounds = Cardinality({ j \in AssistantIdx : j <= i })
         /\ result.final_answer = JStr(TrimmedText(messages[i]))
  /\ (result # None /\ result.status = "completed") =>
       /\ LastMessage.role = "assistant"
       /\ IsAnswerEntry(LastMessage)
       /\ (result.rounds = 1 => result.cited_turn_ids = <<>>)

\* A run completed in round 2 with a trimmed answer, whose round-1 response
\* carried text together with a tool call.
C2_Witness ==
  /\ result # None
  /\ result.status = "completed"
  /\ result.rounds = 2
  /\ messages[3].role = "assistant"
  /\ HasToolCalls(messages[3])
  /\ TrimmedText(messages[3]) # <<>>
  /\ result.final_answer = JStr(<<"a">>)

\* C3: a run whose model requests tools in each of MAX_ROUNDS rounds (no
\* gateway call failing) ends with status max_rounds_exceeded, no answer and
\* rounds = MAX_ROUNDS, returned and not raised, and no session-store call.
C3_EightToolRoundsExhaust ==
  ( /\ RoundsSeen = MAX_ROUNDS
    /\ \A i \in AssistantIdx : HasToolCalls(messages[i])
    /\ pc # "dispatch"
    /\ error \notin GatewayErrors )
  => /\ pc # "raised"
     /\ result # None
     /\ result.status = "max_rounds_exceeded"
     /\ result.final_answer = None
     /\ result.rounds = MAX_ROUNDS
     /\ store_calls = <<>>
     /\ outcome = None

\* C4: a round whose response has no tool calls and no text after trimming
\* is consumed: before the last round the loop goes on to the next round
\* (where only the completion gateway can stop it), and the last round ends
\* the run with status max_rounds_exceeded; nothing is raised by the round.
C4_DegenerateRoundConsumed ==
  (LastMessage.role = "assistant" /\ IsDegenerateEntry(LastMessage)) =>
    IF RoundsSeen < MAX_ROUNDS
    THEN /\ round_idx = RoundsSeen + 1
         /\ result = None
         /\ \/ pc = "complete" /\ error = ""
            \/ pc = "raised" /\ error = COMPLETION_FAILED
                 /\ completions = RoundsSeen + 1
    ELSE /\ pc \in {"returned", "failed"}
         /\ result # None
         /\ result.status = "max_rounds_exceeded"
         /\ result.rounds = MAX_ROUNDS

\* A run ended max_rounds_exceeded after MAX_ROUNDS degenerate responses.
C4_Witness ==
  /\ RoundsSeen = MAX_ROUNDS
  /\ \A i \in AssistantIdx : IsDegenerateEntry(messages[i])
  /\ pc = "returned"
  /\ result.status = "max_rounds_exceeded"

\* The tool messages that follow the assistant entry at i, up to the next
\* assistant entry.
Following(i) ==
  { j \in (i + 1)..Len(messages) :
      \A k \in (i + 1)..j : messages[k].role = "tool" }

ToolIdx == { i \in 1..Len(messages) : messages[i].role = "tool" }

\* The place in the tool-run log of the tool message at i.
LogPlace(i) == Cardinality({ j \in ToolIdx : j <= i })

\* C5: the tool calls of a round are handled in the order received: the
\* assistant entry is followed by one tool-result message per call handled,
\* the j-th tagged with the j-th call's id and name; all k calls have their
\* message before the next completion call; the tool-run log has one entry
\* per tool-result message, in the same order, with the same response.
C5_ToolResultsInCallOrder ==
  /\ \A i \in AssistantIdx :
       LET calls == ToolCallsOf(messages[i])
           m == Cardinality(Following(i))
           last == \A j \in AssistantIdx : j <= i
       IN  /\ m <= Len(calls)
           /\ \A j \in 1..m :
                /\ messages[i + j].tool_call_id = calls[j].id
                /\ messages[i + j].name = calls[j].function.name
           /\ IF last /\ (pc = "dispatch" \/ RaisedInDispatch)
              THEN m = call_idx - 1
              ELSE m = Len(calls)
  /\ Len(tool_runs) = Cardinality(ToolIdx)
  /\ \A i \in ToolIdx :
       /\ messages[i].content = json_dumps(tool_runs[LogPlace(i)].response)
       /\ tool_runs[LogPlace(i)].tool = Or(messages[i].name, JTok("unknown"))

\* A round of two calls of different tools is over and the next completion
\* call is due: the history holds their two results in the order of the calls.
C5_Witness ==
  /\ pc = "complete"
  /\ round_idx = 2
  /\ Len(messages) = 5
  /\ Len(ToolCallsOf(messages[3])) = 2
  /\ messages[4].name = PEEK
  /\ messages[5].name = TURN
  /\ messages[4].tool_call_id # messages[5].tool_call_id
  /\ Len(tool_runs) = 2

\* C6: the history starts as the system prompt and the trimmed intent and is
\* append-only; each round makes one completion call, with the whole history
\* as it then stands, and every completion call that is answered appends one
\* assistant entry, whatever the response carries.
C6_OneCallPerRoundFullHistory ==
  /\ [](IsPrefix(<< [role |-> "system", content |-> SYSTEM_PROMPT],
                    [role |-> "user", content |-> Strip(intent)] >>, messages))
  /\ [][ /\ IsPrefix(messages, messages')
         /\ (completions' # completions =>
               /\ pc = "complete"
               /\ completions = round_idx - 1
               /\ completions' = round_idx
               /\ sent' = messages
               /\ (pc' # "raised" =>
                     /\ Len(messages') = Len(messages) + 1
                     /\ messages'[Len(messages')].role = "assistant"))
         /\ (completions' = completions =>
               \A i \in (Len(messages) + 1)..Len(messages') :
                 messages'[i].role = "tool")
         /\ (round_idx' # round_idx =>
               round_idx' = round_idx + 1 /\ completions' = round_idx) ]_vars

\* Three completion calls were answered; the last was sent a history that
\* holds tool results and an entry with neither text nor tool calls.
C6_Witness ==
  /\ completions = 3
  /\ Len(sent) >= 5
  /\ \E i \in 1..Len(sent) : sent[i].role = "tool"
  /\ Len(messages) > Len(sent)

\* C7: a tool call whose argument text is malformed JSON never aborts the
\* run: no exception leaves the loop at such a call.
C7_MalformedNeverAborts ==
  AbortedByCall => CurrentCall.function.arguments.kind # "malformed"

\* A value of the wrong type for the arguments of peek or turn: not an
\* object, or an object with a field of the wrong type.
WrongType(value) ==
  \/ ~IsDict(value)
  \/ \E k \in {"top_k", "bin_days", "top_n_snippets"} :
       HasKey(value, k) /\ value.d[k].t # "int"
  \/ \E k \in {"query", "start_time", "end_time", "conversation_id", "turn_id"} :
       HasKey(value, k) /\ ~IsString(value.d[k])

\* C8: a call of retrieval_peek or retrieval_turn whose arguments are valid
\* JSON of the wrong type never raises out of the loop.
C8_WrongTypeNeverAborts ==
  AbortedByCall =>
    ~( /\ CurrentCall.function.name \in {PEEK, TURN}
       /\ CurrentCall.function.arguments.kind = "json"
       /\ WrongType(CurrentCall.function.arguments.value) )

\* C9: a call that names no tool of the two never aborts the run, and its
\* logged response is an error that leaves the hydrate counter alone.
C9_UnknownToolNeverAborts ==
  /\ AbortedByCall => CurrentCall.function.name \in {PEEK, TURN}
  /\ \A i \in 1..Len(tool_runs) :
       tool_runs[i].tool \notin {PEEK, TURN} => ~tool_runs[i].response.ok

\* An integer argument of peek outside the range of a Probe.
OutOfRange(value) ==
  /\ IsDict(value)
  /\ \/ value.d["top_k"].t = "int" /\ value.d["top_k"].n \notin 1..1000
     \/ value.d["bin_days"].t = "int" /\ value.d["bin_days"].n \notin 1..365
     \/ value.d["top_n_snippets"].t = "int" /\ value.d["top_n_snippets"].n \notin 1..100

\* C10: a peek whose top_k, bin_days or top_n_snippets is out of range never
\* aborts the run, and its logged response is an error.
C10_OutOfRangePeekIsToolError ==
  /\ AbortedByCall =>
       ~( /\ CurrentCall.function.name = PEEK
          /\ CurrentCall.function.arguments.kind = "json"
          /\ OutOfRange(CurrentCall.function.arguments.value) )
  /\ \A i \in 1..Len(tool_runs) :
       (tool_runs[i].tool = PEEK /\ OutOfRange(tool_runs[i].arguments)) =>
         ~tool_runs[i].response.ok

\* C11: one failure of the completion gateway, or of the embedding gateway
\* inside a peek, ends the run there: the state it leaves is final (no retry,
\* no further completion call or dispatch), the failing call adds nothing to
\* the history or the log, no result is returned and the session store is
\* not called.
C11_GatewayFailureAborts ==
  /\ [](error \in GatewayErrors =>
          /\ pc = "raised"
          /\ result = None
          /\ outcome = None
          /\ store_calls = <<>>)
  /\ [][ /\ ~(pc = "raised" /\ error \in GatewayErrors)
         /\ (error' \in GatewayErrors =>
               /\ messages' = messages
               /\ tool_runs' = tool_runs
               /\ hydrated' = hydrated
               /\ db' = db
               /\ completions' =
                    IF error' = COMPLETION_FAILED THEN completions + 1 ELSE completions) ]_vars

\* The embedding gateway failed in a peek of round 2, after a tool run of
\* round 1 was logged.
C11_Witness ==
  /\ pc = "raised"
  /\ error = EMBEDDING_FAILED
  /\ round_idx = 2
  /\ CurrentCall.function.name = PEEK
  /\ Len(tool_runs) >= 1

\* The places in the tool-run log of the hydrate calls: the retrieval_turn
\* calls whose arguments were parsed, which are the calls of
\* RetrievalTools.turn.
HydrateIdx ==
  { i \in 1..Len(tool_runs) :
      /\ tool_runs[i].tool = TURN
      /\ tool_runs[i].response # Error("Invalid JSON arguments") }

\* The hydrate calls that succeeded.
HydratedIdx == { i \in HydrateIdx : tool_runs[i].response.ok }

HydrateRank(i) == Cardinality({ j \in HydrateIdx : j <= i })

HydratedBefore(i) == Cardinality({ j \in HydratedIdx : j < i })

CappedOut(i) == tool_runs[i].response = Error(CAP_REACHED)

\* The arguments name a turn of the corpus.
NamesTurn(arguments) ==
  /\ HasKey(arguments, "turn_id")
  /\ arguments.d["turn_id"].t = "tok"
  /\ RowsOf(arguments.d["turn_id"].v) # {}

\* C12, as stated: every hydrate call of a run after its 20th hydrate call
\* returns the capped-out error, and the 20th call succeeds when it names a
\* turn of the corpus.
C12_CallsAfterTwentiethCapped ==
  \A i \in HydrateIdx :
    /\ HydrateRank(i) > MAX_HYDRATE_TURNS => CappedOut(i)
    /\ (HydrateRank(i) = MAX_HYDRATE_TURNS /\ NamesTurn(tool_runs[i].arguments)) =>
         tool_runs[i].response.ok

\* C12, amended: a hydrate call returns the capped-out error exactly when 20
\* hydrate calls of the run have succeeded before it, whatever turn it names;
\* before that, a call that names a turn of the corpus succeeds, the call
\* that makes the 20th success included.
C12_CappedAfterTwentyHydrated ==
  \A i \in HydrateIdx :
    IF HydratedBefore(i) >= MAX_HYDRATE_TURNS
    THEN CappedOut(i)
    ELSE /\ ~CappedOut(i)
         /\ NamesTurn(tool_runs[i].arguments) =>
              /\ tool_runs[i].response.ok
              /\ tool_runs[i].response.data.turn_id = tool_runs[i].arguments.d["turn_id"].v

\* A run with a failed hydrate among its first calls: the call that found 19
\* successes before it succeeded, and a later call that names a turn of the
\* corpus was capped out.
C12_Witness ==
  \E i, j, k \in HydrateIdx :
    /\ i < j /\ j < k
    /\ ~tool_runs[i].response.ok
    /\ HydratedBefore(j) = MAX_HYDRATE_TURNS - 1
    /\ tool_runs[j].response.ok
    /\ NamesTurn(tool_runs[k].arguments)
    /\ CappedOut(k)

\* The newest entry of the tool-run log.
LastRun == tool_runs[Len(tool_runs)]

\* C13: once 20 hydrates have succeeded the counter stays at 20 and every
\* later hydrate call is answered with the capped-out error, whatever its
\* arguments (a turn of the corpus, an unknown id, an invalid id, no object
\* at all); the answer is logged like any tool response and the run goes on:
\* it is not raised out of the loop.
C13_CapIsAbsorbingAndNonFatal ==
  /\ [](/\ \A i \in HydrateIdx :
             HydratedBefore(i) >= MAX_HYDRATE_TURNS => CappedOut(i)
        /\ (AbortedByCall /\ CurrentCall.function.name = TURN) =>
             hydrated < MAX_HYDRATE_TURNS)
  /\ [][ /\ (hydrated = MAX_HYDRATE_TURNS => hydrated' = MAX_HYDRATE_TURNS)
         /\ ( /\ pc = "dispatch"
              /\ hydrated = MAX_HYDRATE_TURNS
              /\ CurrentCall.function.name = TURN
              /\ CurrentCall.function.arguments.kind = "json" )
            => /\ tool_runs' = Append(tool_runs, LastRun')
               /\ LastRun'.response = Error(CAP_REACHED)
               /\ Len(messages') = Len(messages) + 1
               /\ pc' \in {"dispatch", "complete", "returned"}
               /\ error' = error ]_vars

\* A completed run in which a hydrate call that names no turn of the corpus
\* was capped out and a later peek succeeded.
C13_Witness ==
  /\ result # None
  /\ result.status = "completed"
  /\ \E i \in HydrateIdx, j \in 1..Len(tool_runs) :
       /\ i < j
       /\ CappedOut(i)
       /\ ~NamesTurn(tool_runs[i].arguments)
       /\ tool_runs[j].tool = PEEK
       /\ tool_runs[j].response.ok

\* C14: the hydrate counter of a run is between 0 and 20 and equals the
\* number of successful hydrate runs logged so far; a step never decreases
\* it, and increases it, by exactly 1, exactly when it logs a successful
\* hydrate: peeks, failed hydrates and every other step leave it unchanged.
C14_CounterCountsHydrated ==
  /\ [](/\ hydrated \in 0..MAX_HYDRATE_TURNS
        /\ hydrated = Cardinality(HydratedIdx))
  /\ [][ /\ hydrated' \in {hydrated, hydrated + 1}
         /\ hydrated' = hydrated + 1 <=>
              /\ Len(tool_runs') = Len(tool_runs) + 1
              /\ LastRun'.tool = TURN
              /\ LastRun'.response.ok ]_vars

\* The counter stands at 20 in a run that has logged peeks and failed
\* hydrates beside its 20 successful hydrates.
C14_Witness ==
  /\ hydrated = MAX_HYDRATE_TURNS
  /\ Cardinality(HydratedIdx) = MAX_HYDRATE_TURNS
  /\ \E i \in HydrateIdx : ~tool_runs[i].response.ok /\ ~CappedOut(i)
  /\ \E i \in 1..Len(tool_runs) : tool_runs[i].tool = PEEK /\ tool_runs[i].response.ok

\* The turn_id of the arguments as RetrievalTools.turn reads it.
TurnIdOf(arguments) == PyStr(Get(arguments, "turn_id"))

\* The arguments carry a UUID that is the id of no row of the corpus.
UnknownId(arguments) ==
  /\ IsUUID(TurnIdOf(arguments))
  /\ \A k \in 1..Len(Corpus) : Corpus[k].turn_id # TurnIdOf(arguments).v

\* The arguments carry no text of a UUID.
InvalidId(arguments) == ~IsUUID(TurnIdOf(arguments))

HydratedIds ==
  LET places == SortedSeq(HydratedIdx)
  IN  [k \in 1..Len(places) |-> tool_runs[places[k]].response.data.turn_id]

\* C16, as stated: the cited_turn_ids of every result of a run are the turn
\* ids of the successful hydrate runs of the log, in log order, one per
\* successful hydration.
C16_CitedIdsAreHydratedIds ==
  result # None =>
    /\ result.tool_runs = tool_runs
    /\ result.cited_turn_ids = HydratedIds

\* C16, amended: the cited_turn_ids of a completed result are the turn ids of
\* the successful hydrate runs of the log, in log order, one per successful
\* hydration and none from a failed hydrate or a peek; a max_rounds_exceeded
\* result cites nothing, whatever was hydrated.
C16_CompletedCitesHydratedIds ==
  result # None =>
    /\ result.tool_runs = tool_runs
    /\ result.cited_turn_ids =
         IF result.status = "completed" THEN HydratedIds ELSE <<>>

\* A completed result that cites two different turns, each more than once,
\* from a log that also holds a failed hydrate and a peek.
C16_Witness ==
  /\ result # None
  /\ result.status = "completed"
  /\ \E i, j \in 1..Len(result.cited_turn_ids) :
       i < j /\ result.cited_turn_ids[i] = "t2" /\ result.cited_turn_ids[j] = "t1"
  /\ \E i, j \in 1..Len(result.cited_turn_ids) :
       i < j /\ result.cited_turn_ids[i] = "t1" /\ result.cited_turn_ids[j] = "t2"
  /\ \E i \in HydrateIdx : ~tool_runs[i].response.ok
  /\ \E i \in 1..Len(tool_runs) : tool_runs[i].tool = PEEK

\* The number of places of a sequence that hold x.
Occurrences(seq, x) == Cardinality({ k \in 1..Len(seq) : seq[k] = x })

\* C17: two successful hydrates of the same turn in one run return the same
\* response, whatever the counter stood at, and a completed result cites
\* each turn as many times as it was hydrated.
C17_RepeatedHydrateSameContentCitedTwice ==
  /\ \A i, j \in HydratedIdx :
       tool_runs[i].response.data.turn_id = tool_runs[j].response.data.turn_id =>
         tool_runs[i].response = tool_runs[j].response
  /\ (result # None /\ result.status = "completed") =>
       \A i \in HydratedIdx :
         LET id == tool_runs[i].response.data.turn_id
         IN  Occurrences(result.cited_turn_ids, id) =
               Cardinality({ j \in HydratedIdx :
                               tool_runs[j].response.data.turn_id = id })

\* A run completed after hydrating turn t1 twice and nothing else: both
\* responses carry the content of t1 and the result cites t1 twice.
C17_Witness ==
  /\ result # None
  /\ result.status = "completed"
  /\ Cardinality(HydratedIdx) = 2
  /\ \A i \in HydratedIdx : tool_runs[i].response.data.turn_id = "t1"
  /\ result.cited_turn_ids = <<"t1", "t1">>

\* The places in the tool-run log of the peeks that succeeded.
PeekedIdx ==
  { i \in 1..Len(tool_runs) : tool_runs[i].tool = PEEK /\ tool_runs[i].response.ok }

\* The histogram of the newest successful peek of the log; None without one.
LastPeekHistogram ==
  IF PeekedIdx = {} THEN None
  ELSE tool_runs[Max(PeekedIdx)].response.data.histogram

\* C18: the histogram the run remembers, and the one its result carries, is
\* the histogram returned by the newest successful peek of the log, as that
\* peek returned it: no failed peek, hydrate or unknown-tool call after it
\* changes it.  The metadata of the answer carries the same histogram, or,
\* when no peek succeeded, a histogram with no buckets and total 0.
C18_HistogramOfLastSuccessfulPeek ==
  /\ histogram = LastPeekHistogram
  /\ result # None => result.histogram = LastPeekHistogram
  /\ outcome # None =>
       IF PeekedIdx = {}
       THEN /\ outcome.metadata.histogram.buckets = <<>>
            /\ outcome.metadata.histogram.total = 0
       ELSE outcome.metadata.histogram = LastPeekHistogram

\* An answer whose metadata carry the histogram of a peek that was followed,
\* in the log, by a failed peek.
C18_Witness ==
  /\ outcome # None
  /\ \E i \in PeekedIdx, j \in 1..Len(tool_runs) :
       /\ i < j
       /\ i = Max(PeekedIdx)
       /\ tool_runs[j].tool = PEEK
       /\ ~tool_runs[j].response.ok
       /\ outcome.metadata.histogram = tool_runs[i].response.data.histogram
       /\ outcome.metadata.histogram.total > 0

\* The session the turn of the run goes to: the one supplied, or the one
\* created for it.
TargetSession == IF session_id = None THEN "s-new" ELSE session_id.v

\* The message ids linked to a session, in the database.
LinkedTo(session) ==
  { db.session_messages[i].message_id :
      i \in { j \in 1..Len(db.session_messages) :
                db.session_messages[j].session_id = session } }

\* C19: the session store is called only after the loop has returned a
\* completed result, and in one step only.  When the answer is returned the
\* store was called once: create_session first exactly when no session id was
\* supplied, then one append_turn that stored the trimmed intent and the
\* answer as the user and assistant messages of the target session; the
\* identifiers in the metadata are those of that session, its conversation
\* and these two messages.
C19_PersistsOnceAfterTheLoop ==
  /\ []((store_calls # <<>> \/ session_id # Unread \/ db # InitDb) =>
          /\ pc \in {"done", "failed"}
          /\ result # None
          /\ result.status = "completed")
  /\ [](pc = "done" =>
          LET m == outcome.metadata
          IN  /\ store_calls = (IF session_id = None THEN <<"create_session">> ELSE <<>>)
                                 \o <<"append_turn">>
              /\ (TargetSession \in DOMAIN InitDb.sessions) <=> (session_id # None)
              /\ DOMAIN db.sessions = DOMAIN InitDb.sessions \cup {TargetSession}
              /\ outcome.answer = result.final_answer
              /\ m.session_id = TargetSession
              /\ m.conversation_id = db.sessions[TargetSession].conversation.v
              /\ Len(db.messages) = Len(InitDb.messages) + 2
              /\ LinkedTo(TargetSession) = {m.user_message_id, m.assistant_message_id}
              /\ m.user_message_id # m.assistant_message_id
              /\ db.messages[m.user_message_id].role = "user"
              /\ db.messages[m.user_message_id].content_text = Strip(intent)
              /\ db.messages[m.user_message_id].conversation_id = m.conversation_id
              /\ db.messages[m.assistant_message_id].role = "assistant"
              /\ db.messages[m.assistant_message_id].content_text = result.final_answer
              /\ db.messages[m.assistant_message_id].conversation_id = m.conversation_id)
  /\ [][ (store_calls' # store_calls \/ db' # db) =>
           /\ pc = "returned"
           /\ store_calls = <<>>
           /\ db = InitDb ]_vars

\* An answer returned to a caller who supplied no session: a session was
\* created and the turn appended to it.
C19_Witness ==
  /\ pc = "done"
  /\ session_id = None
  /\ store_calls = <<"create_session", "append_turn">>
  /\ outcome.metadata.session_id = "s-new"
  /\ Len(db.messages) = 2

\* The error AgentService._persist_turn raises for the intent and session of
\* the run; "" when it raises none.
PersistenceError ==
  IF ~Truthy(Strip(intent)) THEN "HTTPException 400 Cannot persist empty user message"
  ELSE IF session_id = None THEN ""
  ELSE IF session_id.v \notin DOMAIN InitDb.sessions
  THEN "HTTPException 404 session not found"
  ELSE IF InitDb.sessions[session_id.v].archived
  THEN "HTTPException 400 Cannot append to an archived session"
  ELSE ""

\* C20: when persisting the turn of a completed run fails (the session does
\* not exist, the session is archived, or the intent is blank) the run ends
\* with that error raised: no answer and no metadata are returned although
\* the result holds an answer, nothing is stored, and the state is final.
C20_PersistenceFailureLosesAnswer ==
  /\ [](session_id # Unread =>
          IF PersistenceError = ""
          THEN pc = "done" /\ outcome # None
          ELSE /\ pc = "failed"
               /\ error = PersistenceError
               /\ outcome = None
               /\ db = InitDb
               /\ result.status = "completed"
               /\ Truthy(result.final_answer))
  /\ [][pc # "failed"]_vars

\* A completed run whose caller supplied the archived session: the error is
\* raised and the answer of the result is not returned.
C20_Witness ==
  /\ pc = "failed"
  /\ session_id = JTok("s2")
  /\ error = "HTTPException 400 Cannot append to an archived session"
  /\ result.status = "completed"
  /\ result.final_answer = JStr(<<"a">>)
  /\ outcome = None

\* ------------------------------------------------------ single functions

\* The variables of the orchestrator and of the service's runs.
program ==
  << pc, intent, round_idx, messages, tool_runs, histogram, parsed_args, tool_calls,
     call_idx, hydrated, completions, sent, result, error, db, store_calls, outcome,
     session_id, varied, lead, requests, counters >>

\* The variables of the batch jobs.
jobs == << embed, fetch, ingest >>

\* No batch job has started.
NoJob == embed = None /\ fetch = None /\ ingest = None

\* No run has started.
NoRun ==
  /\ pc = "idle"
  /\ intent = None
  /\ round_idx = 0
  /\ messages = <<>>
  /\ tool_runs = <<>>
  /\ histogram = None
  /\ parsed_args = Unbound
  /\ tool_calls = <<>>
  /\ call_idx = 0
  /\ hydrated = 0
  /\ completions = 0
  /\ sent = <<>>
  /\ result = None
  /\ error = ""
  /\ db = InitDb
  /\ store_calls = <<>>
  /\ outcome = None
  /\ session_id = Unread
  /\ varied = {}
  /\ lead = <<>>
  /\ requests = [r \in RunIds |-> IdleRun]
  /\ counters = [o \in RunIds |-> 0]

\* ------------------------------------------------------------- the probes

\* The candidates a search returns, at most.
MaxRows == 3

\* The create times of the candidates: a fraction of a second before the
\* epoch, a fraction of a second before a day boundary before the epoch, a
\* fraction of a second after the epoch, one in the second day and one in
\* the fourth.
ProbeInstants ==
  { -1, -AtSecond(SECONDS_PER_DAY) - 1, 1, AtSecond(SECONDS_PER_DAY) + 1,
    AtSecond(3 * SECONDS_PER_DAY) }

\* The create_time of a candidate's user message: an instant, or NULL.
ProbeTimes ==
  { [some |-> TRUE, at |-> t] : t \in ProbeInstants } \cup { [some |-> FALSE, at |-> 0] }

ProbeDistances == {0, 1, 1000}

\* The k-th candidate of a search: a record of the corpus with the given
\* create time and distance.
ProbeRow(k, time, distance_milli) ==
  [turn_id |-> k, conversation_id |-> "c1", user_message_id |-> k,
   assistant_message_id |-> None, has_time |-> time.some, create_time |-> time.at,
   user_text |-> JStr(<<"a">>), assistant_text |-> None,
   assistant_summary |-> None, used_turn_summary |-> FALSE,
   distance_milli |-> distance_milli]

\* The results of a search: up to MaxRows candidates in ascending distance.
ProbeRows ==
  UNION { { [k \in 1..n |-> ProbeRow(k, times[k], distances[k])] :
              times \in [1..n -> ProbeTimes],
              distances \in { ds \in [1..n -> ProbeDistances] :
                                \A i, j \in 1..n : i < j => ds[i] <= ds[j] } } :
          n \in 0..MaxRows }

\* A function that has not returned.
Pending == [t |-> "pending"]

\* The probes: the rows found for them, and their bin_days and
\* top_n_snippets.
Probes ==
  [rows : ProbeRows, bin_days : 1..2, top_n_snippets : 1..(MaxRows + 1)]

\* The part of RetrievalTools.peek after the search: the histogram and the
\* previews of the rows.
Probe ==
  /\ returned = Pending
  /\ returned' =
       [histogram |-> HistogramOf(inputs.rows, inputs.bin_days,
                                  inputs.bin_days * SECONDS_PER_DAY),
        previews |-> PreviewsOf(inputs.rows, inputs.top_n_snippets)]
  /\ UNCHANGED << inputs, program, jobs >>

InitProbe == NoRun /\ NoJob /\ inputs \in Probes /\ returned = Pending

SpecProbe == InitProbe /\ [][Probe]_vars

\* -------------------------------------------------------- stream_answer

\* The longest answer streamed.
MaxText == 5

\* The answers AgentService.run returns: texts that are not empty and have
\* no whitespace at either end.
AnswerTexts ==
  { JStr(s) : s \in { t \in UNION { [1..n -> {"a", " ", "\n", "\t"}] : n \in 1..MaxText } :
                        StripSeq(t) = t } }

\* The metadata of an answer.
AnswerMetadata ==
  [cited_turn_ids |-> << "t1" >>,
   histogram |-> [bin_days |-> DEFAULT_BIN_DAYS, total |-> 0, buckets |-> <<>>],
   session_id |-> "s1", conversation_id |-> "k1",
   user_message_id |-> 1, assistant_message_id |-> 2]

\* text.split(): the words between runs of whitespace.
RECURSIVE SplitWords(_)
SplitWords(s) ==
  LET t == LStrip(s)
      n == IF \E i \in 1..Len(t) : t[i] \in Whitespace
           THEN (CHOOSE i \in 1..Len(t) :
                   t[i] \in Whitespace /\ \A j \in 1..(i - 1) : t[j] \notin Whitespace) - 1
           ELSE Len(t)
  IN  IF t = <<>> THEN <<>>
      ELSE << SubSeq(t, 1, n) >> \o SplitWords(SubSeq(t, n + 1, Len(t)))

\* text.split(" "): the pieces between the spaces, one more than there are
\* spaces.
RECURSIVE Split(_)
Split(s) ==
  IF \E i \in 1..Len(s) : s[i] = " "
  THEN LET i == CHOOSE i \in 1..Len(s) : s[i] = " " /\ \A j \in 1..(i - 1) : s[j] # " "
       IN  << SubSeq(s, 1, i - 1) >> \o Split(SubSeq(s, i + 1, Len(s)))
  ELSE << s >>

\* The events of the stream: "data: " and the JSON text of a chunk, or the
\* terminal "data: [DONE]".
Chunk(delta, finish_reason) ==
  [data |-> json_dumps([object |-> "chat.completion.chunk", index |-> 0,
                        delta |-> delta, finish_reason |-> finish_reason])]

DONE == [data |-> [text |-> "[DONE]"]]

ContentDelta(content) == [content |-> JStr(content), metadata |-> Absent]

MetadataDelta(metadata) == [content |-> Absent, metadata |-> metadata]

\* A stream that sends the metadata before the text.
stream_answer_MetadataFirst(text, metadata) ==
  LET lines == Split(text.s)
  IN  << Chunk(MetadataDelta(metadata), JTok("metadata")) >>
        \o [idx \in 1..Len(lines) |->
              Chunk(ContentDelta(lines[idx] \o (IF idx < Len(lines) THEN <<" ">> ELSE <<>>)),
                    None)]
        \o << DONE >>

\* stream_answer(text, metadata): the events it yields, in order.
stream_answer(text, metadata) ==
  LET lines == Split(text.s)
  IN  [idx \in 1..Len(lines) |->
         Chunk(ContentDelta(lines[idx] \o (IF idx < Len(lines) THEN <<" ">> ELSE <<>>)),
               None)]
        \o << Chunk(MetadataDelta(metadata), JTok("metadata")), DONE >>

\* The chat endpoint streams an answer.
Stream ==
  /\ returned = Pending
  /\ returned' = stream_answer(inputs.text, inputs.metadata)
  /\ UNCHANGED << inputs, program, jobs >>

InitStream ==
  /\ NoRun
  /\ NoJob
  /\ inputs \in [text : AnswerTexts, metadata : {AnswerMetadata}]
  /\ returned = Pending

SpecStream == InitStream /\ [][Stream]_vars

\* ------------------------------------------------------ appending a turn

\* The texts handed to the persistence: empty, whitespace only, and texts
\* with a letter; None for a text that is missing.
TurnTexts ==
  { None, JStr(<<>>), JStr(<<" ">>), JStr(<<"\n", " ">>), JStr(<<"a">>),
    JStr(<<" ", "a">>), JStr(<<"a", " ", "a">>) }

\* The session store before the append: with no turn yet, and with one turn
\* in the open session.
StoredDbs ==
  { InitDb, append_turn(InitDb, "s1", JStr(<<"a">>), JStr(<<"a">>)).db }

\* AgentService._persist_turn appends the turn of inputs to the store.
AppendTurn ==
  /\ returned = Pending
  /\ returned' = _persist_turn(inputs.db, inputs.session_id, inputs.user_text,
                               inputs.assistant_text)
  /\ UNCHANGED << inputs, program, jobs >>

InitAppend ==
  /\ NoRun
  /\ NoJob
  /\ inputs \in [db : StoredDbs, session_id : SessionIds, user_text : TurnTexts,
                 assistant_text : TurnTexts]
  /\ returned = Pending

SpecAppend == InitAppend /\ [][AppendTurn]_vars

\* ------------------------------------------------------- concurrent runs

\* The intent of request r: r letters, so that no two requests share one.
RunIntent(r) == JStr([i \in 1..r |-> "a"])

\* One RetrievalTools object that every run shares.
ToolsOf_Shared(r) == 1

\* The RetrievalTools object of request r: AgentService.run makes a new one
\* for each run.
ToolsOf(r) == r

RunCallId(r, round, position) ==
  [t |-> "id", run |-> r, round |-> round, position |-> position]

\* The call list the gateway gives request r in a round.
RunToolCalls(fs, r, round) ==
  [t |-> "calls",
   items |-> [i \in 1..Len(fs) |->
                [id |-> RunCallId(r, round, i), function |-> fs[i]]]]

\* The call lists of a short run.
RunLists ==
  { << Function(PEEK, JsonText(Q)) >>,
    << Hydrate("t1"), Hydrate("t9") >>,
    << Hydrate("t2") >> }

RunAnswer == Payload(Message(JStr(<<"a">>), None))

\* What the completion gateway answers request r in a round.  Request 1 is
\* a long run: four hydrates of existing turns a round for HydrateRounds
\* rounds and one round more, then the answer.  The others are short runs:
\* one round of calls, then the answer.
RunResponses(r, round) ==
  IF r = 1
  THEN IF round <= HydrateRounds + 1
       THEN { Payload(Message(None,
                RunToolCalls(<< Hydrate("t1"), Hydrate("t2"), Hydrate("t2"), Hydrate("t1") >>,
                             r, round))) }
       ELSE { RunAnswer }
  ELSE IF round = 1
       THEN { Payload(Message(None, RunToolCalls(fs, r, round))) : fs \in RunLists }
       ELSE { RunAnswer }

RunCompleted(r, run, content) ==
  [intent |-> RunIntent(r), final_answer |-> content, status |-> "completed",
   rounds |-> run.round_idx, tool_runs |-> run.tool_runs,
   cited_turn_ids |-> CitedTurnIds(run.tool_runs), histogram |-> run.histogram]

\* The end of a round of request r that did not complete the run.
RunNextRound(r, run) ==
  IF run.round_idx < MAX_ROUNDS
  THEN [run EXCEPT !.pc = "complete", !.round_idx = @ + 1]
  ELSE [run EXCEPT !.pc = "returned",
                   !.result = [intent |-> RunIntent(r), final_answer |-> None,
                               status |-> "max_rounds_exceeded", rounds |-> MAX_ROUNDS,
                               tool_runs |-> run.tool_runs, cited_turn_ids |-> <<>>,
                               histogram |-> run.histogram]]

\* AgentService.run starts on request r: its tools object, with a counter
\* of zero, and the orchestrator's first two messages.
RunStart(r) ==
  /\ requests[r].pc = "idle"
  /\ requests' = [requests EXCEPT ![r] =
                    [IdleRun EXCEPT !.pc = "complete", !.tools = ToolsOf(r),
                                    !.round_idx = 1,
                                    !.messages = InitialMessages(RunIntent(r))]]
  /\ counters' = [counters EXCEPT ![ToolsOf(r)] = 0]

\* One round's completion call of request r.
RunComplete(r) ==
  /\ requests[r].pc = "complete"
  /\ \E payload \in RunResponses(r, requests[r].round_idx) :
       LET run == requests[r]
           message == _extract_message(payload)
           calls == ToolCallsOf(message)
           content == FinalContent(message)
           heard == [run EXCEPT !.messages = Append(@, AssistantEntry(message))]
       IN  requests' = [requests EXCEPT ![r] =
             IF calls # <<>>
             THEN [heard EXCEPT !.pc = "dispatch", !.tool_calls = calls, !.call_idx = 1]
             ELSE IF Truthy(content)
             THEN [heard EXCEPT !.pc = "returned",
                                !.result = RunCompleted(r, heard, content)]
             ELSE RunNextRound(r, heard)]
  /\ UNCHANGED counters

\* The completion gateway fails request r.
RunCompleteFails(r) ==
  /\ requests[r].pc = "complete"
  /\ requests' = [requests EXCEPT ![r].pc = "raised", ![r].error = COMPLETION_FAILED]
  /\ UNCHANGED counters

\* The body of the loop over the tool calls of request r, for the call at
\* its call_idx, with the counter of the run's tools object.
RunDispatch(r) ==
  /\ requests[r].pc = "dispatch"
  /\ \E embed_ok \in BOOLEAN :
       LET run == requests[r]
           call == run.tool_calls[run.call_idx]
           tool_name == call.function.name
           loaded == json_loads(RawArgs(call))
           did == IF loaded.ok
                  THEN _dispatch(tool_name, loaded.value, embed_ok, counters[run.tools])
                  ELSE Return(Error("Invalid JSON arguments"), counters[run.tools])
           args_now == IF loaded.ok THEN loaded.value ELSE run.parsed_args
           response == did.response
           hist == IF loaded.ok THEN Remembered(tool_name, response, run.histogram)
                   ELSE run.histogram
           logged == [run EXCEPT
                        !.parsed_args = args_now,
                        !.histogram = hist,
                        !.tool_runs = Append(@, ToolRun(tool_name, args_now, response)),
                        !.messages = Append(@, ToolMessage(call, run.tool_calls, response))]
       IN  IF did.kind = "raise"
           THEN /\ requests' = [requests EXCEPT ![r].pc = "raised", ![r].error = did.exc,
                                                ![r].parsed_args = args_now]
                /\ UNCHANGED counters
           ELSE IF args_now = Unbound
           THEN /\ requests' = [requests EXCEPT ![r].pc = "raised",
                                                ![r].error = "UnboundLocalError"]
                /\ UNCHANGED counters
           ELSE /\ counters' = [counters EXCEPT ![run.tools] = did.hydrated]
                /\ requests' = [requests EXCEPT ![r] =
                     IF run.call_idx < Len(run.tool_calls)
                     THEN [logged EXCEPT !.call_idx = @ + 1]
                     ELSE RunNextRound(r, logged)]

RunsNext ==
  \E r \in RunIds :
    /\ RunStart(r) \/ RunComplete(r) \/ RunCompleteFails(r) \/ RunDispatch(r)
    /\ UNCHANGED << pc, intent, round_idx, messages, tool_runs, histogram, parsed_args,
                    tool_calls, call_idx, hydrated, completions, sent, result, error,
                    db, store_calls, outcome, session_id, varied, lead, inputs, returned, embed, fetch, ingest >>

\* A service that serves MaxRuns requests at once, their steps interleaved.
SpecRuns == Init /\ [][RunsNext]_vars

\* The places of the log of request r that hold a successful hydrate.
RunHydratedIdx(r) ==
  { i \in 1..Len(requests[r].tool_runs) :
      /\ requests[r].tool_runs[i].tool = TURN
      /\ requests[r].tool_runs[i].response.ok }

RunCappedIdx(r) ==
  { i \in 1..Len(requests[r].tool_runs) :
      requests[r].tool_runs[i].response = Error(CAP_REACHED) }

\* The ids of the calls and tool results in the history of request r.
RunIdsIn(r) ==
  LET history == requests[r].messages
  IN  UNION { IF history[i].role = "tool" THEN { history[i].tool_call_id }
              ELSE IF history[i].role = "assistant" /\ history[i].tool_calls # None
              THEN { history[i].tool_calls.items[k].id :
                       k \in 1..Len(history[i].tool_calls.items) }
              ELSE {} : i \in 1..Len(history) }

\* The state of request r is its own: its history opens with its intent and
\* holds calls and results of its own calls only, one result per entry of
\* its log; its counter is the number of its own successful hydrations, and
\* it was capped only after MAX_HYDRATE_TURNS of them; its result is of its
\* intent and its log.
RunOwnsItsState(r) ==
  LET run == requests[r]
  IN  run.pc # "idle" =>
        /\ SubSeq(run.messages, 1, 2) = InitialMessages(RunIntent(r))
        /\ \A id \in RunIdsIn(r) : id.run = r
        /\ Cardinality({ i \in 1..Len(run.messages) : run.messages[i].role = "tool" })
             = Len(run.tool_runs)
        /\ counters[ToolsOf(r)] = Cardinality(RunHydratedIdx(r))
        /\ \A i \in RunCappedIdx(r) :
             Cardinality({ j \in RunHydratedIdx(r) : j < i }) >= MAX_HYDRATE_TURNS
        /\ run.result # None =>
             /\ run.result.intent = RunIntent(r)
             /\ run.result.tool_runs = run.tool_runs

\* A step of request r leaves every other request, and the counter of every
\* other request, as they were.
RunStepsAreLocal ==
  \A r \in RunIds :
    requests'[r] # requests[r] =>
      \A q \in RunIds \ {r} :
        /\ requests'[q] = requests[q]
        /\ counters'[ToolsOf(q)] = counters[ToolsOf(q)]

\* C21: in every interleaving of concurrent runs each run has its own
\* message history and hydrate counter: hydrations of one run never advance
\* another run's counter or trigger its cap, and no message or tool run of
\* one run appears in another's history, log or result.  (The corpus is read
\* by peek and turn and written by no step.)
C21_RunsAreIndependent ==
  /\ [](\A r \in RunIds : RunOwnsItsState(r))
  /\ [][RunStepsAreLocal]_vars

\* Request 1 has been refused at the cap while request 2, in the middle of
\* a round, has hydrated a turn and is nowhere near the cap.
C21_Witness ==
  /\ RunCappedIdx(1) # {}
  /\ requests[2].pc = "dispatch"
  /\ RunHydratedIdx(2) # {}
  /\ RunCappedIdx(2) = {}
  /\ counters[ToolsOf(2)] < counters[ToolsOf(1)]

\* ---------------------------------------------------------------- C22

RECURSIVE SumOfCounts(_)
SumOfCounts(buckets) ==
  IF buckets = <<>> THEN 0 ELSE Head(buckets).count + SumOfCounts(Tail(buckets))

\* The candidates of the probe whose user message has a create time.
TimedRows == { i \in 1..Len(inputs.rows) : inputs.rows[i].has_time }

BucketsAreBinDaysWide ==
  \A i \in 1..Len(returned.histogram.buckets) :
    returned.histogram.buckets[i].end - returned.histogram.buckets[i].start
      = AtSecond(inputs.bin_days * SECONDS_PER_DAY)

\* C22, as stated: the bucket counts of every peek result sum to the number
\* of candidates the search returned, the histogram's total, and every
\* bucket is exactly bin_days days wide.
C22_CountsSumToTotal ==
  returned # Pending =>
    /\ returned.histogram.total = Len(inputs.rows)
    /\ SumOfCounts(returned.histogram.buckets) = returned.histogram.total
    /\ BucketsAreBinDaysWide

\* C22, amended: the bucket counts of every peek result sum to the number of
\* returned candidates that have a create time, those beyond the preview
\* cutoff included; the histogram's total is the number of all returned
\* candidates; every bucket is exactly bin_days days wide.
C22_CountsSumToTimedCandidates ==
  returned # Pending =>
    /\ returned.histogram.total = Len(inputs.rows)
    /\ SumOfCounts(returned.histogram.buckets) = Cardinality(TimedRows)
    /\ BucketsAreBinDaysWide

\* A probe with more candidates than previews, one of them without a create
\* time and two of them in one bucket.
C22_Witness ==
  /\ returned # Pending
  /\ Len(inputs.rows) > Len(returned.previews)
  /\ Cardinality(TimedRows) < Len(inputs.rows)
  /\ \E i \in 1..Len(returned.histogram.buckets) :
       returned.histogram.buckets[i].count >= 2

\* ---------------------------------------------------------------- C23

\* a/b >= c/d for fractions with positive denominators.
AtLeast(x, y) == x.num * y.den >= y.num * x.den

\* C23: for every valid probe the preview list has exactly
\* min(top_n_snippets, candidate count) entries, and they are the first
\* candidates of the search result in the search's order of ascending
\* distance, so that their scores never increase.
C23_PreviewsAreTheFirstCandidates ==
  returned # Pending =>
    /\ Len(returned.previews) = Min(inputs.top_n_snippets, Len(inputs.rows))
    /\ \A i \in 1..Len(returned.previews) :
         /\ returned.previews[i].turn_id = inputs.rows[i].turn_id
         /\ returned.previews[i].score
              = score_from_distance(inputs.rows[i].distance_milli)
    /\ \A i, j \in 1..Len(returned.previews) :
         i < j => AtLeast(returned.previews[i].score, returned.previews[j].score)

\* A probe with more candidates than top_n_snippets, at distinct distances:
\* the previews stop at the cutoff.
C23_Witness ==
  /\ returned # Pending
  /\ Len(inputs.rows) > inputs.top_n_snippets
  /\ Len(returned.previews) = inputs.top_n_snippets
  /\ \A i, j \in 1..Len(inputs.rows) :
       i < j => inputs.rows[i].distance_milli < inputs.rows[j].distance_milli

\* ---------------------------------------------------------------- C24

\* C24: for every timestamp t and every bin of b = bin_days * 86400 seconds,
\* bin_days >= 1, bin_timestamp returns a bucket start s that is a multiple
\* of b seconds from the UTC epoch with s <= t < s + b, for timestamps with
\* a fraction of a second and timestamps before the epoch as for any other;
\* the buckets of the histogram have pairwise distinct starts, in ascending
\* order, and a count of at least 1 each.
C24_BucketStartFloorsTimestamp ==
  returned # Pending =>
    LET b == AtSecond(inputs.bin_days * SECONDS_PER_DAY)
        buckets == returned.histogram.buckets
    IN  /\ \A i \in TimedRows :
             LET t == inputs.rows[i].create_time
                 s == bin_timestamp(t, inputs.bin_days * SECONDS_PER_DAY)
             IN  /\ s % b = 0
                 /\ s <= t
                 /\ t < s + b
                 /\ \E k \in 1..Len(buckets) : buckets[k].start = s
        /\ \A k \in 1..Len(buckets) : buckets[k].count >= 1
        /\ \A j, k \in 1..Len(buckets) : j < k => buckets[j].start < buckets[k].start

\* ---------------------------------------------------------------- C25

\* a/b > c/d for fractions with positive denominators.
MoreThan(x, y) == x.num * y.den > y.num * x.den

\* C25: for all distances d >= 0 the score 1/(1+d) lies in (0, 1], is 1 at
\* d = 0, and is strictly decreasing in d: of two candidates the one at the
\* smaller distance has the greater score.
C25_ScoreStrictlyDecreasing ==
  returned # Pending =>
    /\ \A i \in 1..Len(returned.previews) :
         LET score == returned.previews[i].score
         IN  /\ score.den > 0
             /\ score.num > 0
             /\ score.num <= score.den
             /\ inputs.rows[i].distance_milli = 0 <=> score.num = score.den
    /\ \A i, j \in 1..Len(returned.previews) :
         inputs.rows[i].distance_milli < inputs.rows[j].distance_milli
           => MoreThan(returned.previews[i].score, returned.previews[j].score)

\* Previews of a candidate at distance 0 and of candidates at two greater
\* distances.
C25_Witness ==
  /\ returned # Pending
  /\ Len(returned.previews) >= 3
  /\ inputs.rows[1].distance_milli = 0
  /\ inputs.rows[2].distance_milli > 0
  /\ inputs.rows[3].distance_milli > inputs.rows[2].distance_milli

\* ---------------------------------------------------------------- C26

\* The arguments of the call at call_idx, when they are a JSON object.
CurrentArguments == json_loads(RawArgs(CurrentCall)).value

\* The call at call_idx is a peek whose arguments are an object with no
\* query, or with one that is empty or whitespace only.
BlankPeek ==
  /\ pc = "dispatch"
  /\ CurrentCall.function.name = PEEK
  /\ json_loads(RawArgs(CurrentCall)).ok
  /\ IsDict(CurrentArguments)
  /\ \/ ~HasKey(CurrentArguments, "query")
     \/ /\ IsString(CurrentArguments.d["query"])
        /\ StrLen(Strip(CurrentArguments.d["query"])) = 0

StartAfterEnd(arguments) ==
  LET start_time == _parse_iso_datetime(Get(arguments, "start_time"))
      end_time == _parse_iso_datetime(Get(arguments, "end_time"))
  IN  /\ start_time.some
      /\ end_time.some
      /\ start_time.at > end_time.at

\* C27: no peek runs the nearest-neighbour search with start_time later than
\* end_time: a retrieval_peek call that gives both with start > end is
\* rejected, its logged response an error.
C27_StartAfterEndRejected ==
  \A i \in 1..Len(tool_runs) :
    (tool_runs[i].tool = PEEK /\ StartAfterEnd(tool_runs[i].arguments))
      => ~tool_runs[i].response.ok

\* ---------------------------------------------------------------- C28

\* The places of the stream that hold a token delta.
DeltaIdx ==
  { i \in 1..Len(returned) :
      returned[i] # DONE /\ returned[i].data.json.delta.content # Absent }

RECURSIVE Concatenated(_)
Concatenated(events) ==
  IF events = <<>> THEN <<>>
  ELSE Head(events).data.json.delta.content.s \o Concatenated(Tail(events))

\* C28: stream_answer emits its events in a fixed order: the token deltas,
\* then exactly one metadata event with finish_reason "metadata", then
\* exactly one "data: [DONE]" and nothing after it; the contents of the
\* token deltas, concatenated in order, are the answer text, and every
\* content but the last ends with a space.
C28_StreamOrderAndContent ==
  returned # Pending =>
    LET n == Len(returned)
    IN  /\ n >= 2
        /\ returned[n] = DONE
        /\ returned[n - 1] = Chunk(MetadataDelta(inputs.metadata), JTok("metadata"))
        /\ DeltaIdx = 1..(n - 2)
        /\ \A i \in 1..(n - 2) : returned[i].data.json.finish_reason = None
        /\ Concatenated(SubSeq(returned, 1, n - 2)) = inputs.text.s
        /\ \A i \in 1..(n - 3) :
             LET content == returned[i].data.json.delta.content.s
             IN  content # <<>> /\ content[Len(content)] = " "

\* The stream of an answer of several words.
C28_Witness ==
  /\ returned # Pending
  /\ Len(returned) >= 4
  /\ \E i \in 1..Len(inputs.text.s) : inputs.text.s[i] = " "

\* ---------------------------------------------------------------- C29

Deltas == [i \in 1..(Len(returned) - 2) |-> returned[i].data.json.delta.content.s]

\* C29, as stated: the token deltas are one per whitespace-split word of the
\* answer, whatever whitespace separates the words: as many events as words,
\* the content of each a word and a trailing space, none on the last.
C29_OneDeltaPerWord ==
  returned # Pending =>
    LET words == SplitWords(inputs.text.s)
    IN  /\ Len(Deltas) = Len(words)
        /\ \A i \in 1..Len(Deltas) :
             Deltas[i] = words[i] \o (IF i < Len(Deltas) THEN <<" ">> ELSE <<>>)

\* The number of space characters of a text.
Spaces(s) == Cardinality({ i \in 1..Len(s) : s[i] = " " })

\* C29, amended: the token deltas are one per piece of the answer between
\* its space characters: one more event than there are spaces, the content
\* of each a piece, which holds no space, is empty between two consecutive
\* spaces and keeps its newlines and tabs, and a trailing space, none on the
\* last.
C29_OneDeltaPerPiece ==
  returned # Pending =>
    /\ Len(Deltas) = Spaces(inputs.text.s) + 1
    /\ \A i \in 1..Len(Deltas) :
         LET piece == IF i < Len(Deltas)
                      THEN SubSeq(Deltas[i], 1, Len(Deltas[i]) - 1)
                      ELSE Deltas[i]
         IN  /\ Spaces(piece) = 0
             /\ Deltas[i] = piece \o (IF i < Len(Deltas) THEN <<" ">> ELSE <<>>)
    /\ Concatenated(SubSeq(returned, 1, Len(returned) - 2)) = inputs.text.s

\* The stream of an answer with two consecutive spaces and a newline: a
\* delta of a space alone and a delta with the newline in it.
C29_Witness ==
  /\ returned # Pending
  /\ \E i \in 1..Len(Deltas) : Deltas[i] = <<" ">>
  /\ \E i \in 1..Len(Deltas) : \E k \in 1..Len(Deltas[i]) : Deltas[i][k] = "\n"

\* ---------------------------------------------------------------- C30

\* The text is empty once trimmed.
EmptyAfterTrimming(text) == StrLen(Strip(Or(text, JStr(<<>>)))) = 0

\* The turn of inputs is for an archived session.
ForArchivedSession ==
  /\ inputs.session_id # None
  /\ inputs.session_id.v \in DOMAIN inputs.db.sessions
  /\ inputs.db.sessions[inputs.session_id.v].archived

MaxJobs == 2

\* cfg.max_content_len of the jobs.
ContentLen == 4

\* cfg.batch_size of the jobs is one of 1..MaxBatch.
MaxBatch == 2

\* The models a job may embed for (cfg.model); the provider is one.
EmbedModels == {"m1", "m2"}

PROVIDER == "supermind"

\* A turn of the messages table: an assistant message and its parent user
\* message, with the user message's turn_summary.
EmbedTurn(user_id, assistant_id, user_text, assistant_text, turn_summary) ==
  [user_message_id |-> user_id, assistant_message_id |-> assistant_id,
   user_text |-> JStr(user_text), assistant_text |-> JStr(assistant_text),
   turn_summary |-> turn_summary]

\* The turns of the model in the order of their create times: two answers
\* to the user message u1, the summary of u1 blank, and a turn with a
\* summary and a long user text.
EmbedPool ==
  << EmbedTurn("u1", "a1", <<"x">>, <<"p">>, JStr(<<" ">>)),
     EmbedTurn("u1", "a2", <<"x">>, <<"q">>, JStr(<<" ">>)),
     EmbedTurn("u2", "a3", <<"y", "y", "y">>, <<"p">>, JStr(<<" ", "s">>)) >>

RECURSIVE SubSeqs(_)
SubSeqs(seq) ==
  IF seq = <<>> THEN { <<>> }
  ELSE LET rest == SubSeqs(Tail(seq))
       IN  rest \cup { << Head(seq) >> \o r : r \in rest }

\* The messages tables of the model: the turns of the pool that are there.
EmbedCorpora == SubSeqs(EmbedPool)

\* build_content(user_text, assistant_text, turn_summary, max_len):
\* [content, used_summary].  "U" and "A" stand for the two labels.
build_content(user_text, assistant_text, turn_summary, max_len) ==
  LET assistant_part == Or(Strip(Or(turn_summary, JStr(<<>>))), assistant_text)
      used_summary == Truthy(turn_summary) /\ Truthy(Strip(turn_summary))
      content == <<"U">> \o user_text.s \o <<"A">> \o assistant_part.s
  IN  [content |-> IF Len(content) > max_len THEN SubSeq(content, 1, max_len)
                   ELSE content,
       used_summary |-> used_summary]

\* sha256_text(value): the digest, which tells any two texts of the model
\* apart.
sha256_text(value) == [sha256 |-> value]

\* The records of message_embeddings with the key.
RecordsOf(table, user_id, provider, model) ==
  { i \in 1..Len(table) :
      /\ table[i].user_message_id = user_id
      /\ table[i].provider = provider
      /\ table[i].model = model }

\* The content hash stored for the key, None without a record.
StoredHash(table, user_id, provider, model) ==
  LET found == RecordsOf(table, user_id, provider, model)
  IN  IF found = {} THEN None
      ELSE table[CHOOSE i \in found : \A j \in found : i <= j].content_hash

\* fetch_candidates(conn, provider, model, limit, offset).
fetch_candidates(table, corpus, provider, model, limit, offset) ==
  LET last == Min(offset + limit, Len(corpus))
  IN  [k \in 1..(IF last > offset THEN last - offset ELSE 0) |->
         LET row == corpus[offset + k]
         IN  [user_message_id |-> row.user_message_id,
              assistant_message_id |-> row.assistant_message_id,
              user_text |-> row.user_text,
              assistant_text |-> row.assistant_text,
              turn_summary |-> row.turn_summary,
              existing_hash |-> StoredHash(table, row.user_message_id, provider, model)]]

\* The record a batch entry is stored as.
EmbedRecord(entry, provider, model, now) ==
  [user_message_id |-> entry.user_message_id,
   assistant_message_id |-> entry.assistant_message_id,
   provider |-> provider, model |-> model,
   content_used |-> entry.content, content_hash |-> entry.content_hash,
   used_turn_summary |-> entry.used_summary,
   vector |-> [of |-> entry.content], created_at |-> now]

\* An upsert that is a plain INSERT.
RECURSIVE upsert_embeddings_Insert(_, _, _, _, _)
upsert_embeddings_Insert(table, provider, model, entries, now) ==
  IF entries = <<>> THEN table
  ELSE upsert_embeddings_Insert(
         Append(table, EmbedRecord(Head(entries), provider, model, now)),
         provider, model, Tail(entries), now)

\* upsert_embeddings: INSERT ... ON CONFLICT (user_message_id, provider,
\* model) DO UPDATE, one entry after the other.
RECURSIVE upsert_embeddings(_, _, _, _, _)
upsert_embeddings(table, provider, model, entries, now) ==
  IF entries = <<>> THEN table
  ELSE LET record == EmbedRecord(Head(entries), provider, model, now)
           found == RecordsOf(table, record.user_message_id, provider, model)
           next == IF found = {} THEN Append(table, record)
                   ELSE [i \in 1..Len(table) |-> IF i \in found THEN record ELSE table[i]]
       IN  upsert_embeddings(next, provider, model, Tail(entries), now)

\* The loop over the candidates of a batch: what each candidate is built
\* into, and whether it is skipped for its hash.
BatchEntries(candidates, force) ==
  [k \in 1..Len(candidates) |->
     LET cand == candidates[k]
         built == build_content(cand.user_text, cand.assistant_text,
                                cand.turn_summary, ContentLen)
         content_hash == sha256_text(built.content)
     IN  [user_message_id |-> cand.user_message_id,
          assistant_message_id |-> cand.assistant_message_id,
          content |-> built.content, content_hash |-> content_hash,
          used_summary |-> built.used_summary,
          existing_hash |-> cand.existing_hash,
          skipped |-> /\ ~force
                      /\ cand.existing_hash # None
                      /\ cand.existing_hash = content_hash]]

\* The entries of a batch that are not skipped, in order.
RECURSIVE Kept(_)
Kept(entries) ==
  IF entries = <<>> THEN <<>>
  ELSE (IF Head(entries).skipped THEN <<>> ELSE << Head(entries) >>) \o Kept(Tail(entries))

\* The job before its first run: the messages table, an empty
\* message_embeddings and the batch size of the configuration.
EmbedIdle(corpus, batch_size) ==
  [pc |-> "idle", corpus |-> corpus, table |-> <<>>, job |-> 0, model |-> "m1",
   force |-> FALSE, batch_size |-> batch_size, processed |-> 0,
   stats |-> [embedded |-> 0, skipped_existing_hash |-> 0, batches |-> 0],
   at_start |-> <<>>, failures |-> 0, log |-> <<>>, history |-> <<>>]

\* run_embedding_job(cfg) is called: no limit, a model, force or not.
StartJob ==
  /\ embed.pc \in {"idle", "done", "raised"}
  /\ embed.job < MaxJobs
  /\ \E force \in BOOLEAN, model \in EmbedModels :
       embed' = [embed EXCEPT
                   !.pc = "run", !.job = @ + 1, !.model = model, !.force = force,
                   !.processed = 0,
                   !.stats = [embedded |-> 0, skipped_existing_hash |-> 0, batches |-> 0],
                   !.at_start = embed.table, !.failures = 0, !.log = <<>>,
                   !.history = IF embed.job = 0 THEN <<>>
                               ELSE Append(@, [pc |-> embed.pc, model |-> embed.model,
                                               force |-> embed.force,
                                               failures |-> embed.failures])]
  /\ UNCHANGED << inputs, returned, fetch, ingest, program >>

\* What a batch leaves in the job's log: its entries, each with the hash
\* stored for it when it was looked at, and what became of it.
Logged(entries, table, model, force, posted, upserted) ==
  [k \in 1..Len(entries) |->
     [user_message_id |-> entries[k].user_message_id,
      assistant_message_id |-> entries[k].assistant_message_id,
      content_hash |-> entries[k].content_hash,
      stored_hash |-> StoredHash(table, entries[k].user_message_id, PROVIDER, model),
      force |-> force,
      skipped |-> entries[k].skipped,
      sent |-> posted /\ ~entries[k].skipped,
      upserted |-> upserted /\ ~entries[k].skipped]]

\* One pass of the job's loop: a batch of candidates is fetched, built and
\* hashed; the gateway answers and the batch is upserted and committed.
\* Without candidates the job is done.
EmbedBatch ==
  /\ embed.pc = "run"
  /\ LET candidates == fetch_candidates(embed.table, embed.corpus, PROVIDER, embed.model,
                                        embed.batch_size, embed.processed)
         entries == BatchEntries(candidates, embed.force)
         kept == Kept(entries)
         skipped == Len(entries) - Len(kept)
     IN  IF candidates = <<>>
         THEN embed' = [embed EXCEPT !.pc = "done"]
         ELSE IF kept = <<>>
         THEN embed' = [embed EXCEPT
                          !.processed = @ + Len(candidates),
                          !.stats.skipped_existing_hash = @ + skipped,
                          !.log = @ \o Logged(entries, embed.table, embed.model,
                                              embed.force, FALSE, FALSE)]
         ELSE embed' = [embed EXCEPT
                          !.table = upsert_embeddings(@, PROVIDER, embed.model, kept,
                                                      embed.job),
                          !.processed = @ + Len(candidates),
                          !.stats = [embedded |-> @.embedded + Len(kept),
                                     skipped_existing_hash |->
                                       @.skipped_existing_hash + skipped,
                                     batches |-> @.batches + 1],
                          !.log = @ \o Logged(entries, embed.table, embed.model,
                                              embed.force, TRUE, TRUE)]
  /\ UNCHANGED << inputs, returned, fetch, ingest, program >>

\* The batch that is sent to the gateway, if there is one.
SentBatch ==
  LET candidates == fetch_candidates(embed.table, embed.corpus, PROVIDER, embed.model,
                                     embed.batch_size, embed.processed)
  IN  BatchEntries(candidates, embed.force)

\* One pass of the loop in which the gateway refuses the batch for its
\* context length: the batch is logged and passed over.
EmbedBatchTooLong ==
  /\ embed.pc = "run"
  /\ Kept(SentBatch) # <<>>
  /\ embed' = [embed EXCEPT
                 !.processed = @ + Len(SentBatch),
                 !.stats.skipped_existing_hash =
                   @ + (Len(SentBatch) - Len(Kept(SentBatch))),
                 !.failures = @ + 1,
                 !.log = @ \o Logged(SentBatch, embed.table, embed.model, embed.force,
                                     TRUE, FALSE)]
  /\ UNCHANGED << inputs, returned, fetch, ingest, program >>

\* One pass of the loop in which fetch_embeddings fails for another reason:
\* EmbeddingFetchError leaves the job.
EmbedBatchFails ==
  /\ embed.pc = "run"
  /\ Kept(SentBatch) # <<>>
  /\ embed' = [embed EXCEPT
                 !.pc = "raised",
                 !.stats.skipped_existing_hash =
                   @ + (Len(SentBatch) - Len(Kept(SentBatch))),
                 !.failures = @ + 1,
                 !.log = @ \o Logged(SentBatch, embed.table, embed.model, embed.force,
                                     TRUE, FALSE)]
  /\ UNCHANGED << inputs, returned, fetch, ingest, program >>

InitEmbed ==
  /\ NoRun
  /\ inputs = None
  /\ returned = None
  /\ fetch = None
  /\ ingest = None
  /\ embed \in { EmbedIdle(corpus, batch_size) :
                   corpus \in EmbedCorpora, batch_size \in 1..MaxBatch }

NextEmbed == StartJob \/ EmbedBatch \/ EmbedBatchTooLong \/ EmbedBatchFails

SpecEmbed == InitEmbed /\ [][NextEmbed]_vars

\* ---------------------------------------------------------------- C31

\* C31: after any sequence of embedding-job runs there is at most one
\* embedding record per (user message, provider, model); in a job run
\* without force a candidate whose newly built content hashes to the stored
\* hash is counted as skipped and is neither sent to the embedding gateway
\* nor upserted; with force no candidate is skipped: each is sent to the
\* gateway, and upserted when the gateway answers.
C31_OneRecordPerKeyAndSkipByHash ==
  /\ \A i, j \in 1..Len(embed.table) :
       (/\ embed.table[i].user_message_id = embed.table[j].user_message_id
        /\ embed.table[i].provider = embed.table[j].provider
        /\ embed.table[i].model = embed.table[j].model) => i = j
  /\ \A k \in 1..Len(embed.log) :
       LET entry == embed.log[k]
       IN  /\ (~entry.force /\ entry.stored_hash = entry.content_hash)
                => (entry.skipped /\ ~entry.sent /\ ~entry.upserted)
           /\ entry.force => (~entry.skipped /\ entry.sent)
           /\ entry.upserted => entry.sent
  /\ embed.stats.skipped_existing_hash
       = Cardinality({ k \in 1..Len(embed.log) : embed.log[k].skipped })

\* A second job without force has skipped a candidate for its hash and
\* embedded another, and the table holds records of two user messages.
C31_Witness ==
  /\ embed.job = 2
  /\ ~embed.force
  /\ \E k \in 1..Len(embed.log) : embed.log[k].skipped
  /\ \E k \in 1..Len(embed.log) : embed.log[k].upserted
  /\ Len(embed.table) >= 2

\* ---------------------------------------------------------------- C38

\* The job that has ended is a second run over the unchanged corpus: the
\* run before it was for the same model and ended with every batch
\* answered by the gateway, and so did this one; this one ran without force.
SecondRunDone ==
  /\ embed # None
  /\ embed.pc = "done"
  /\ embed.job >= 2
  /\ ~embed.force
  /\ embed.failures = 0
  /\ LET before == embed.history[Len(embed.history)]
     IN  /\ before.pc = "done"
         /\ before.model = embed.model
         /\ before.failures = 0

\* Some user message of the corpus has more than one assistant child.
SharedUserMessage ==
  \E i, j \in 1..Len(embed.corpus) :
    i # j /\ embed.corpus[i].user_message_id = embed.corpus[j].user_message_id

\* C38: the embedding job is idempotent without force: for every corpus, one
\* where a user message has more than one assistant child included, a second
\* run over the unchanged corpus embeds no turn, skips every candidate by its
\* hash and leaves every embedding record as it was.
C38_SecondRunEmbedsNothing ==
  SecondRunDone =>
    /\ embed.stats.embedded = 0
    /\ \A k \in 1..Len(embed.log) : embed.log[k].skipped
    /\ embed.table = embed.at_start

\* The same, for the corpora in which every user message has one child.
C38_OneChildEach ==
  (SecondRunDone /\ ~SharedUserMessage) => 
    /\ embed.stats.embedded = 0
    /\ embed.table = embed.at_start

\* ---------------------------------------------------------------- C32

\* The argument object of a call itself: what its argument string parses
\* to, empty when that is not an object or does not parse.
OwnArguments(call) ==
  LET loaded == json_loads(RawArgs(call))
  IN  IF loaded.ok /\ IsDict(loaded.value) THEN loaded.value ELSE EmptyDict

\* C32: every tool-run log entry records the tool name, the parsed arguments
\* of its own call and that call's structured response: the logged arguments
\* are the call's own argument object (empty when its arguments did not parse
\* to an object), never those of an earlier call, and an entry is never
\* modified once appended.
C32_LogEntryHoldsOwnArguments ==
  [][ /\ Len(tool_runs') >= Len(tool_runs)
      /\ SubSeq(tool_runs', 1, Len(tool_runs)) = tool_runs
      /\ Len(tool_runs') > Len(tool_runs) =>
           LET entry == tool_runs'[Len(tool_runs')]
           IN  /\ Len(tool_runs') = Len(tool_runs) + 1
               /\ entry.tool = Or(CurrentCall.function.name, JTok("unknown"))
               /\ entry.arguments = OwnArguments(CurrentCall)
               /\ json_dumps(entry.response) = messages'[Len(messages')].content
    ]_vars

\* The same without the arguments: the entries are appended once, never
\* modified, and hold the name and the response of their own call.
C32_LogEntryHoldsOwnResponse ==
  [][ /\ Len(tool_runs') >= Len(tool_runs)
      /\ SubSeq(tool_runs', 1, Len(tool_runs)) = tool_runs
      /\ Len(tool_runs') > Len(tool_runs) =>
           LET entry == tool_runs'[Len(tool_runs')]
           IN  /\ Len(tool_runs') = Len(tool_runs) + 1
               /\ entry.tool = Or(CurrentCall.function.name, JTok("unknown"))
               /\ json_dumps(entry.response) = messages'[Len(messages')].content
    ]_vars

\* ------------------------------------------------------ hydrating a turn

\* How far past MAX_TURN_CHARS the stored texts go.
Overshoot == 1

\* A text of n characters, the last of them unlike the others.
LongText(n) == JStr([i \in 1..n |-> IF i = n THEN "z" ELSE "a"])

\* The lengths of the stored texts: short ones and those around the cut.
HydrateLengths ==
  {0, 1, MAX_TURN_CHARS - 1} \cup (MAX_TURN_CHARS..(MAX_TURN_CHARS + Overshoot))

HydrateTexts == { LongText(n) : n \in HydrateLengths }

\* The rows the hydrate query returns: an assistant message may be missing
\* (LEFT JOIN) and its summary may be null.
HydrateRows ==
  { [turn_id |-> "t1", conversation_id |-> "c1", user_message_id |-> "u1",
     assistant_message_id |-> IF assistant_text = None THEN None ELSE JTok("a1"),
     has_time |-> TRUE, create_time |-> AtSecond(0),
     user_text |-> user_text, assistant_text |-> assistant_text,
     assistant_summary |-> assistant_summary, used_turn_summary |-> used,
     distance_milli |-> 0] :
      user_text \in HydrateTexts,
      assistant_text \in HydrateTexts \cup {None},
      assistant_summary \in HydrateTexts \cup {None},
      used \in BOOLEAN }

\* RetrievalTools.turn from the row it read to the response it returns.
HydrateRow ==
  /\ returned = Pending
  /\ returned' = Ok(HydratedTurn(inputs))
  /\ UNCHANGED << inputs, program, jobs >>

InitHydrate == NoRun /\ NoJob /\ inputs \in HydrateRows /\ returned = Pending

SpecHydrate == InitHydrate /\ [][HydrateRow]_vars

\* ---------------------------------------------------------------- C33

\* The stored assistant content of a row: the summary when the used-summary
\* flag is set, the assistant text otherwise.
StoredAssistant(row) ==
  IF row.used_turn_summary THEN row.assistant_summary ELSE row.assistant_text

\* content is the first MAX_TURN_CHARS characters of stored (null for null).
FirstChars(content, stored) ==
  IF stored = None THEN content = None
  ELSE /\ content # None
       /\ Len(content.s) = Min(Len(stored.s), MAX_TURN_CHARS)
       /\ \A i \in 1..Len(content.s) : content.s[i] = stored.s[i]

\* The stored text is longer than what a hydrate returns of it.
Cut(stored) == stored # None /\ Len(stored.s) > MAX_TURN_CHARS

\* C33: a successful hydrate returns user content and assistant content of at
\* most 2000 characters each, the first 2000 characters of the stored text,
\* the assistant content being the summary when the used-summary flag is set
\* and the assistant text otherwise; truncated is true exactly when at least
\* one of the two sides was cut.
C33_HydrateCutsBothSides ==
  (returned # Pending /\ returned.ok) =>
    LET data == returned.data
    IN  /\ FirstChars(data.user_content, inputs.user_text)
        /\ FirstChars(data.assistant_content, StoredAssistant(inputs))
        /\ data.user_content.t = "str" /\ Len(data.user_content.s) <= 2000
        /\ data.assistant_content # None => Len(data.assistant_content.s) <= 2000
        /\ data.truncated <=> (Cut(inputs.user_text) \/ Cut(StoredAssistant(inputs)))

\* A hydrate that cut the user side only and returned the summary.
C33_Witness ==
  /\ returned # Pending
  /\ returned.ok
  /\ returned.data.truncated
  /\ inputs.used_turn_summary
  /\ Len(inputs.user_text.s) > MAX_TURN_CHARS
  /\ Len(returned.data.user_content.s) = MAX_TURN_CHARS
  /\ returned.data.assistant_content = inputs.assistant_summary
  /\ inputs.assistant_summary # None
  /\ inputs.assistant_summary # inputs.assistant_text

\* ------------------------------------------------------ fetch_embeddings

\* The most attempts a caller allows.
MaxRetries == 3

\* The retry_backoff_seconds a caller passes.
Backoffs == {0, 1, 2}

\* The numbers of texts in a request.
FetchTexts == {1, 2}

\* What an attempt can raise inside the try: the request or its status
\* check fails, or the answer has another number of embeddings than texts.
FetchFailures == {"HTTPError", "ValueError count mismatch"}

\* A loop that sleeps after every failed attempt.
AfterFailure_AlwaysSleeps(attempt, max_retries) == "sleep"

\* The except clause: break after the last attempt, sleep otherwise.
AfterFailure(attempt, max_retries) ==
  IF attempt = max_retries THEN "raised" ELSE "sleep"

\* for attempt in range(1, max_retries + 1): the loop is entered, or left at
\* once when the range is empty.
FetchStart ==
  /\ fetch.pc = "called"
  /\ fetch' = [fetch EXCEPT !.pc = IF 1 <= fetch.max_retries THEN "attempt" ELSE "raised",
                            !.attempt = 1]
  /\ UNCHANGED << inputs, returned, embed, ingest, program >>

\* An attempt that the gateway answers with one embedding per text: the
\* function returns them.
FetchPostOk ==
  /\ fetch.pc = "attempt"
  /\ fetch' = [fetch EXCEPT
                 !.pc = "returned",
                 !.events = Append(@, [kind |-> "post", attempt |-> fetch.attempt,
                                       ok |-> TRUE, slept |-> 0]),
                 !.result = [embeddings |-> fetch.texts, attempt |-> fetch.attempt]]
  /\ UNCHANGED << inputs, returned, embed, ingest, program >>

\* An attempt that raises inside the try.
FetchPostFails ==
  /\ fetch.pc = "attempt"
  /\ \E exc \in FetchFailures :
       fetch' = [fetch EXCEPT
                   !.pc = AfterFailure(fetch.attempt, fetch.max_retries),
                   !.last_exc = exc,
                   !.events = Append(@, [kind |-> "post", attempt |-> fetch.attempt,
                                         ok |-> FALSE, slept |-> 0])]
  /\ UNCHANGED << inputs, returned, embed, ingest, program >>

\* time.sleep(backoff * attempt), then the next turn of the loop, which
\* ends when the range is used up.
FetchSleep ==
  /\ fetch.pc = "sleep"
  /\ fetch' = [fetch EXCEPT
                 !.pc = IF fetch.attempt + 1 <= fetch.max_retries THEN "attempt"
                        ELSE "raised",
                 !.attempt = fetch.attempt + 1,
                 !.events = Append(@, [kind |-> "sleep", attempt |-> fetch.attempt,
                                       ok |-> FALSE,
                                       slept |-> fetch.backoff * fetch.attempt])]
  /\ UNCHANGED << inputs, returned, embed, ingest, program >>

InitFetch ==
  /\ NoRun
  /\ inputs = None
  /\ returned = None
  /\ embed = None
  /\ ingest = None
  /\ fetch \in [pc : {"called"}, max_retries : 0..MaxRetries, backoff : Backoffs,
                texts : FetchTexts, attempt : {0}, last_exc : {""},
                events : {<<>>}, result : {None}]

NextFetch == FetchStart \/ FetchPostOk \/ FetchPostFails \/ FetchSleep

SpecFetch == InitFetch /\ [][NextFetch]_vars

\* ---------------------------------------------------------------- C34

\* The places of the attempts and of the waits in what the call did.
Posts == { k \in 1..Len(fetch.events) : fetch.events[k].kind = "post" }

Sleeps == { k \in 1..Len(fetch.events) : fetch.events[k].kind = "sleep" }

Exhausted == result # None /\ result.status = "max_rounds_exceeded"

\* C35: a result with status max_rounds_exceeded has final_answer null,
\* rounds = 8 and an empty cited_turn_ids list even when hydrates succeeded
\* during the run, while it still carries the complete tool-run log and the
\* histogram of the last successful peek.
C35_ExhaustedResult ==
  Exhausted =>
    /\ result.final_answer = None
    /\ result.rounds = 8
    /\ completions = 8
    /\ result.cited_turn_ids = <<>>
    /\ result.tool_runs = tool_runs
    /\ Len(result.tool_runs) = Cardinality(ToolIdx)
    /\ \A i \in ToolIdx :
         messages[i].content = json_dumps(result.tool_runs[LogPlace(i)].response)
    /\ result.histogram = LastPeekHistogram

\* A run that ended without an answer after a hydrate and a peek succeeded.
C35_Witness ==
  /\ Exhausted
  /\ HydratedIdx # {}
  /\ PeekedIdx # {}
  /\ result.histogram # None
  /\ result.cited_turn_ids = <<>>

\* ------------------------------------------- the transaction of a turn

\* The state of a call of AgentService._persist_turn: committed is the
\* database as other connections see it, tx the database as the call's open
\* transaction sees it.
PersistState(pc_, inputs_, committed, tx) ==
  [pc |-> pc_, committed |-> committed, tx |-> tx,
   target |-> "", conversation_id |-> "", base_idx_conv |-> 0, base_idx_session |-> 0,
   user_clean |-> Strip(Or(inputs_.user_text, JStr(<<>>))),
   assistant_clean |-> Strip(Or(inputs_.assistant_text, JStr(<<>>))),
   exc |-> "", failed_at |-> "", result |-> None]

\* An exception leaves the connection block: the transaction is rolled back.
RolledBack(state, exc) ==
  [state EXCEPT !.pc = "raised", !.exc = exc, !.failed_at = state.pc,
                !.tx = state.committed]

\* The two tests of the texts, before a connection is opened.
PersistCheck ==
  /\ returned = Pending
  /\ LET state == PersistState("connected", inputs, inputs.db, inputs.db)
     IN  returned' =
           IF ~Truthy(state.user_clean)
           THEN [state EXCEPT !.pc = "raised", !.failed_at = "check",
                   !.exc = "HTTPException 400 Cannot persist empty user message"]
           ELSE IF ~Truthy(state.assistant_clean)
           THEN [state EXCEPT !.pc = "raised", !.failed_at = "check",
                   !.exc = "HTTPException 502 Assistant response was empty"]
           ELSE state
  /\ UNCHANGED << inputs, program, jobs >>

\* A create_session that commits what it wrote.
PersistTarget_Commits ==
  /\ returned # Pending
  /\ returned.pc = "connected"
  /\ returned' =
       IF inputs.session_id = None
       THEN [returned EXCEPT !.pc = "append", !.target = "s-new",
                             !.tx = create_session(@),
                             !.committed = create_session(returned.tx)]
       ELSE [returned EXCEPT !.pc = "append", !.target = inputs.session_id.v]
  /\ UNCHANGED << inputs, program, jobs >>

\* The target session: a session created in the transaction when the caller
\* supplied none.
PersistTarget ==
  /\ returned # Pending
  /\ returned.pc = "connected"
  /\ returned' =
       IF inputs.session_id = None
       THEN [returned EXCEPT !.pc = "append", !.target = "s-new",
                             !.tx = create_session(@)]
       ELSE [returned EXCEPT !.pc = "append", !.target = inputs.session_id.v]
  /\ UNCHANGED << inputs, program, jobs >>

\* append_turn up to the two base indexes: the session row, the archived
\* test, the conversation.
PersistLookup ==
  /\ returned # Pending
  /\ returned.pc = "append"
  /\ returned' =
       IF returned.target \notin DOMAIN returned.tx.sessions
       THEN RolledBack(returned, "HTTPException 404 session not found")
       ELSE IF returned.tx.sessions[returned.target].archived
       THEN RolledBack(returned, "HTTPException 400 Cannot append to an archived session")
       ELSE
       LET conversation_id == _conversation_id_for_session(returned.tx, returned.target)
           db0 == [returned.tx EXCEPT
                     !.conversations = @ \cup {conversation_id},
                     !.sessions[returned.target].conversation = JTok(conversation_id)]
       IN  [returned EXCEPT
              !.pc = "insert_user",
              !.tx = db0,
              !.conversation_id = conversation_id,
              !.base_idx_conv = _next_idx_for_conversation(db0, conversation_id),
              !.base_idx_session = _next_idx_for_session(db0, returned.target)]
  /\ UNCHANGED << inputs, program, jobs >>

\* The user message and its link to the session.
PersistInsertUser ==
  /\ returned # Pending
  /\ returned.pc = "insert_user"
  /\ returned' =
       [returned EXCEPT
          !.pc = "insert_assistant",
          !.tx = InsertLinked(@, returned.target, returned.conversation_id, "user",
                              returned.user_clean, returned.base_idx_conv,
                              returned.base_idx_session)]
  /\ UNCHANGED << inputs, program, jobs >>

\* The assistant message and its link to the session.
PersistInsertAssistant ==
  /\ returned # Pending
  /\ returned.pc = "insert_assistant"
  /\ returned' =
       [returned EXCEPT
          !.pc = "commit",
          !.tx = InsertLinked(@, returned.target, returned.conversation_id, "assistant",
                              returned.assistant_clean, returned.base_idx_conv + 1,
                              returned.base_idx_session + 1)]
  /\ UNCHANGED << inputs, program, jobs >>

\* conn.commit() and the return of the identifiers.
PersistCommit ==
  /\ returned # Pending
  /\ returned.pc = "commit"
  /\ returned' =
       [returned EXCEPT
          !.pc = "returned",
          !.committed = returned.tx,
          !.result = [session_id |-> returned.target,
                      conversation_id |-> returned.conversation_id,
                      user_message_id |-> Len(returned.tx.messages) - 1,
                      assistant_message_id |-> Len(returned.tx.messages)]]
  /\ UNCHANGED << inputs, program, jobs >>

\* A statement of the transaction, or the commit, fails in the database:
\* psycopg.Error leaves the connection block.
PersistDbError ==
  /\ returned # Pending
  /\ returned.pc \in {"connected", "append", "insert_user", "insert_assistant", "commit"}
  /\ returned' = RolledBack(returned, "psycopg.Error")
  /\ UNCHANGED << inputs, program, jobs >>

InitPersist ==
  /\ NoRun
  /\ NoJob
  /\ inputs \in [db : StoredDbs, session_id : SessionIds, user_text : TurnTexts,
                 assistant_text : TurnTexts]
  /\ returned = Pending

NextPersist ==
  \/ PersistCheck
  \/ PersistTarget
  \/ PersistLookup
  \/ PersistInsertUser
  \/ PersistInsertAssistant
  \/ PersistCommit
  \/ PersistDbError

SpecPersist == InitPersist /\ [][NextPersist]_vars

\* ---------------------------------------------------------------- C36

\* The messages of the committed database that the call added.
Added(k) == returned.committed.messages[Len(inputs.db.messages) + k]

AddedLink(k) == returned.committed.session_messages[Len(inputs.db.session_messages) + k]

\* C36: persisting a finished turn is all-or-nothing: when _persist_turn
\* fails at any step, nothing is committed: no newly created session,
\* conversation or user message is left behind; when it succeeds, the session
\* creation (if any) and both messages are committed together.
C36_PersistIsAllOrNothing ==
  returned # Pending =>
    /\ returned.pc # "returned" => returned.committed = inputs.db
    /\ returned.pc = "raised" =>
         /\ DOMAIN returned.committed.sessions = DOMAIN inputs.db.sessions
         /\ returned.committed.conversations = inputs.db.conversations
         /\ returned.committed.messages = inputs.db.messages
         /\ returned.committed.session_messages = inputs.db.session_messages
         /\ returned.result = None
    /\ returned.pc = "returned" =>
         /\ Len(returned.committed.messages) = Len(inputs.db.messages) + 2
         /\ Len(returned.committed.session_messages)
              = Len(inputs.db.session_messages) + 2
         /\ Added(1).role = "user" /\ Added(2).role = "assistant"
         /\ AddedLink(1).session_id = returned.result.session_id
         /\ AddedLink(2).session_id = returned.result.session_id
         /\ returned.result.session_id \in DOMAIN returned.committed.sessions
         /\ returned.result.conversation_id \in returned.committed.conversations
         /\ inputs.session_id = None =>
              /\ returned.result.session_id \notin DOMAIN inputs.db.sessions
              /\ returned.result.conversation_id \notin inputs.db.conversations
         /\ returned.committed
              = _persist_turn(inputs.db, inputs.session_id, inputs.user_text,
                              inputs.assistant_text).db

\* A call that had created a session and inserted the user message when the
\* database failed.
C36_Witness ==
  /\ returned # Pending
  /\ returned.pc = "raised"
  /\ returned.failed_at = "insert_assistant"
  /\ inputs.session_id = None
  /\ returned.target = "s-new"

\* ------------------------------------------------- a sequence of appends

\* The most turns appended to the store, over all its sessions.
MaxTurns == 3

\* The store before the first append: the open session s1 and the archived
\* s2 of InitDb, a session s3 whose metadata names no conversation, and a
\* session s4 whose metadata names the conversation of s1.
TurnsDb ==
  [InitDb EXCEPT
     !.sessions = [id \in {"s1", "s2", "s3", "s4"} |->
                     IF id \in DOMAIN InitDb.sessions THEN InitDb.sessions[id]
                     ELSE [archived |-> FALSE,
                           conversation |-> IF id = "s3" THEN None ELSE JTok("k1")]]]

\* The sessions a caller names: those of the store and one that is unknown.
TurnSessions == DOMAIN TurnsDb.sessions \cup {"s9"}

\* The texts of a turn.
UserTexts == {JStr(<<"a">>), JStr(<<"b">>)}

AssistantTexts == {JStr(<<"c">>)}

\* One append_turn call in a transaction of its own, the calls one after the
\* other: committed when it returns, rolled back when it raises.  turns
\* keeps, for each session, the turns appended to it.
AppendNext ==
  /\ returned.appended < MaxTurns
  /\ \E session \in TurnSessions, user_text \in UserTexts, assistant_text \in AssistantTexts :
       LET appended == append_turn(returned.db, session, user_text, assistant_text)
       IN  /\ inputs' = [session_id |-> session, user_text |-> user_text,
                         assistant_text |-> assistant_text]
           /\ returned' =
                IF appended.kind = "raise"
                THEN [returned EXCEPT !.kind = "raise", !.exc = appended.exc]
                ELSE [returned EXCEPT
                        !.kind = "return", !.exc = "",
                        !.db = appended.db,
                        !.appended = @ + 1,
                        !.turns[session] = Append(@, [user |-> user_text,
                                                      assistant |-> assistant_text])]
  /\ UNCHANGED << program, jobs >>

InitTurns ==
  /\ NoRun
  /\ NoJob
  /\ inputs = None
  /\ returned = [kind |-> "none", exc |-> "", db |-> TurnsDb, appended |-> 0,
                 turns |-> [id \in DOMAIN TurnsDb.sessions |-> <<>>]]

SpecTurns == InitTurns /\ [][AppendNext]_vars

\* ---------------------------------------------------------------- C37

\* The links of a session to its messages, in a store.
LinksOf(store, session) ==
  { i \in 1..Len(store.session_messages) : store.session_messages[i].session_id = session }

\* The message of a session at an index, in a store.
MessageAt(store, session, idx) ==
  store.messages[store.session_messages[
    CHOOSE i \in LinksOf(store, session) : store.session_messages[i].idx = idx].message_id]

\* C37: after any sequence of successful append_turn calls, run one after
\* the other, on a session, the session's message indexes are exactly
\* 0, 1, ..., 2k-1 with no gap or duplicate, the message at every even index
\* has role user and the one at the following odd index is its assistant
\* reply, and all messages of the session carry the same conversation id,
\* which never changes once the session has one.
C37_IndexesAreDenseAndAlternate ==
  /\ [](\A session \in DOMAIN returned.db.sessions :
          LET store == returned.db
              k == Len(returned.turns[session])
              links == LinksOf(store, session)
          IN  /\ Cardinality(links) = 2 * k
              /\ { store.session_messages[i].idx : i \in links } = 0..(2 * k - 1)
              /\ \A j \in 1..k :
                   LET asked == MessageAt(store, session, 2 * j - 2)
                       reply == MessageAt(store, session, 2 * j - 1)
                   IN  /\ asked.role = "user"
                       /\ asked.content_text = returned.turns[session][j].user
                       /\ reply.role = "assistant"
                       /\ reply.content_text = returned.turns[session][j].assistant
                       /\ reply.id = asked.id + 1
                       /\ reply.idx_in_conv = asked.idx_in_conv + 1
              /\ \A i \in links :
                   /\ store.sessions[session].conversation # None
                   /\ store.messages[store.session_messages[i].message_id].conversation_id
                        = store.sessions[session].conversation.v)
  /\ [][\A session \in DOMAIN returned.db.sessions :
          \/ LinksOf(returned.db, session) = {}
               /\ returned.db.sessions[session].conversation = None
          \/ returned'.db.sessions[session].conversation
               = returned.db.sessions[session].conversation]_vars

\* Two turns in a session, with a turn of the session that shares its
\* conversation appended between them.
C37_Witness ==
  /\ Len(returned.turns["s1"]) = 2
  /\ Len(returned.turns["s4"]) = 1
  /\ MessageAt(returned.db, "s1", 2).idx_in_conv = 4
  /\ MessageAt(returned.db, "s1", 3).role = "assistant"

\* -------------------------------------------------------- the ingest job

\* The most lines of an input file.
MaxLines == 2

\* The most messages of a conversation.
MaxMessages == 2

IngestConversations == {"c1", "c2"}

\* The lines of an input file that are not blank.  A line is a conversation
\* with its messages, all of them with a role and a text that are kept; or
\* it is no JSON; or its conversation has no id; or the last of its messages
\* has no id.  The message ids of a file are distinct.
IngestLines ==
  [kind : {"conversation", "message without id"}, conv : IngestConversations,
   messages : 1..MaxMessages]
  \cup [kind : {"malformed JSON", "conversation without id"}, conv : {"c1"},
        messages : {1}]

IngestFiles == UNION { [1..n -> IngestLines] : n \in 0..MaxLines }

\* IngestStats(): the counters of messages skipped or truncated, which no
\* line of the model moves, are left out.
IngestStats ==
  [conversations_written |-> 0, conversations_skipped |-> 0, messages_written |-> 0,
   lines_processed |-> 0]

\* A line from json.loads to the statement that raises, or to the end of
\* insert_messages: the counters and the writes of the open transaction.
\* A line that is no JSON raises in iter_jsonl, before the line is counted.
IngestedLine(stats, tx, lines, line_no) ==
  LET line == lines[line_no]
      counted == [stats EXCEPT !.lines_processed = @ + 1]
      fresh == line.conv \notin tx.conversations
      upserted == [counted EXCEPT
                     !.conversations_written = IF fresh THEN @ + 1 ELSE @,
                     !.conversations_skipped = IF fresh THEN @ ELSE @ + 1]
      with_conv == [tx EXCEPT !.conversations = @ \cup {line.conv}]
      inserted == IF line.kind = "message without id" THEN line.messages - 1
                  ELSE line.messages
      written == [upserted EXCEPT !.messages_written = @ + inserted]
      with_messages ==
        [with_conv EXCEPT !.messages = @ \cup { <<line_no, k>> : k \in 1..inserted }]
  IN  CASE line.kind = "malformed JSON" ->
             [exc |-> "ValueError Malformed JSON", stats |-> stats, tx |-> tx]
        [] line.kind = "conversation without id" ->
             [exc |-> "ValueError Conversation missing id", stats |-> counted, tx |-> tx]
        [] line.kind = "message without id" ->
             [exc |-> "ValueError Message missing id", stats |-> written,
              tx |-> with_messages]
        [] OTHER ->
             [exc |-> "", stats |-> written, tx |-> with_messages]

\* create_ingest_run and its commit.
IngestStart ==
  /\ ingest.pc = "called"
  /\ ingest' = [ingest EXCEPT
                  !.pc = "loop",
                  !.line = 1,
                  !.run = [status |-> "running", stats |-> IngestStats, error |-> ""]]
  /\ UNCHANGED << inputs, returned, embed, fetch, program >>

\* A line that is ingested: its writes are committed.
IngestLine ==
  /\ ingest.pc = "loop"
  /\ ingest.line <= Len(ingest.lines)
  /\ LET done == IngestedLine(ingest.stats, ingest.tx, ingest.lines, ingest.line)
     IN  /\ done.exc = ""
         /\ ingest' = [ingest EXCEPT
                         !.line = @ + 1,
                         !.stats = done.stats,
                         !.tx = done.tx,
                         !.committed = done.tx]
  /\ UNCHANGED << inputs, returned, embed, fetch, program >>

\* A line that raises: the except clause is entered with the counters and
\* the open transaction as the line left them.
IngestLineRaises ==
  /\ ingest.pc = "loop"
  /\ ingest.line <= Len(ingest.lines)
  /\ LET done == IngestedLine(ingest.stats, ingest.tx, ingest.lines, ingest.line)
     IN  /\ done.exc # ""
         /\ ingest' = [ingest EXCEPT
                         !.pc = "except",
                         !.exc = done.exc,
                         !.stats = done.stats,
                         !.tx = done.tx]
  /\ UNCHANGED << inputs, returned, embed, fetch, program >>

\* The except clause: rollback, finalize_ingest_run(failed), commit, raise.
IngestFailed ==
  /\ ingest.pc = "except"
  /\ ingest' = [ingest EXCEPT
                  !.pc = "raised",
                  !.tx = ingest.committed,
                  !.run = [status |-> "failed", stats |-> ingest.stats,
                           error |-> ingest.exc],
                  !.finalized = @ + 1]
  /\ UNCHANGED << inputs, returned, embed, fetch, program >>

\* The end of the loop: finalize_ingest_run(succeeded), commit, return.
IngestSucceeded ==
  /\ ingest.pc = "loop"
  /\ ingest.line > Len(ingest.lines)
  /\ ingest' = [ingest EXCEPT
                  !.pc = "returned",
                  !.run = [status |-> "succeeded", stats |-> ingest.stats,
                           error |-> ""],
                  !.finalized = @ + 1]
  /\ UNCHANGED << inputs, returned, embed, fetch, program >>

\* The store before the run: empty, or with conversation c1 in it.
IngestStores ==
  { [conversations |-> {}, messages |-> {}],
    [conversations |-> {"c1"}, messages |-> {}] }

InitIngest ==
  /\ NoRun
  /\ inputs = None
  /\ returned = None
  /\ embed = None
  /\ fetch = None
  /\ \E lines \in IngestFiles, store \in IngestStores :
       ingest = [pc |-> "called", lines |-> lines, line |-> 0, stats |-> IngestStats,
                 at_start |-> store, committed |-> store, tx |-> store,
                 run |-> None, exc |-> "", finalized |-> 0]

NextIngest ==
  \/ IngestStart
  \/ IngestLine
  \/ IngestLineRaises
  \/ IngestFailed
  \/ IngestSucceeded

SpecIngest == InitIngest /\ [][NextIngest]_vars

\* ---------------------------------------------------------------- C39

\* The store after the lines before line_no, each committed in its turn.
RECURSIVE CommittedBefore(_, _, _)
CommittedBefore(store, lines, line_no) ==
  IF line_no <= 1 THEN store
  ELSE LET before == CommittedBefore(store, lines, line_no - 1)
       IN  [conversations |-> before.conversations \cup {lines[line_no - 1].conv},
            messages |-> before.messages
                           \cup { <<line_no - 1, k>> : k \in 1..lines[line_no - 1].messages }]

\* The run record is in status running until the run is finalized, once: to
\* succeeded when every line was ingested, to failed when a line raised; the
\* failing line's writes are rolled back, the lines before it stay, and the
\* error is raised to the caller.
IngestFinalizedOnce ==
  /\ ingest.pc \in {"loop", "except"} =>
       /\ ingest.run.status = "running"
       /\ ingest.finalized = 0
  /\ ingest.pc = "returned" =>
       /\ ingest.run.status = "succeeded"
       /\ ingest.finalized = 1
       /\ \A i \in 1..Len(ingest.lines) : ingest.lines[i].kind = "conversation"
       /\ ingest.committed
            = CommittedBefore(ingest.at_start, ingest.lines, Len(ingest.lines) + 1)
  /\ ingest.pc = "raised" =>
       /\ ingest.run.status = "failed"
       /\ ingest.finalized = 1
       /\ ingest.lines[ingest.line].kind # "conversation"
       /\ \A i \in 1..(ingest.line - 1) : ingest.lines[i].kind = "conversation"
       /\ ingest.committed = CommittedBefore(ingest.at_start, ingest.lines, ingest.line)
       /\ ingest.tx = ingest.committed
       /\ ingest.exc # ""
       /\ ingest.run.error = ingest.exc

\* The statistics stored with a failed run count the rows that the run
\* committed, and no other.
FailedRunCountsCommittedRows ==
  ingest.pc = "raised" =>
    /\ ingest.run.stats.conversations_written
         = Cardinality(ingest.committed.conversations \ ingest.at_start.conversations)
    /\ ingest.run.stats.messages_written
         = Cardinality(ingest.committed.messages \ ingest.at_start.messages)

\* C39: an ingest run record starts in status running and is finalized
\* exactly once, to succeeded when every input line was ingested or to failed
\* when any line raised; on failure the writes of the failing conversation
\* are rolled back while the conversations committed before it remain, the
\* statistics stored with the failed run count only rows that were actually
\* committed, and the error is re-raised to the caller.
C39_RunFinalizedOnceWithCommittedCounts ==
  IngestFinalizedOnce /\ FailedRunCountsCommittedRows

====
